---- MODULE Spec2Model ----
(***************************************************************************)
(* TestFrame: run locks, execution records, run-id allocation, duplicate   *)
(* cleanup and the duplication workflow, modelled over a document store    *)
(* shared by browser tabs.  Every store call is one step; a transaction is *)
(* a body step (its reads) and a commit step that succeeds only when the   *)
(* documents it read are unchanged, and re-runs the body otherwise.        *)
(***************************************************************************)
EXTENDS Integers, Sequences, FiniteSets, TLC

(* ------------------------------ bounds --------------------------------- *)
\* clock values 0..MaxTime (one unit = one minute)
MaxTime == 3
\* service calls the harness of Spec issues in one behaviour
MaxHarnessCalls == 3
\* service calls under way or unanswered at one time
MaxCalls == 8
\* highest run number the counter may reach
MaxRunNo == 7
\* workflows (id allocations, duplications) started in one behaviour
MaxJobs == 2
\* pool of store-assigned execution document ids
MaxExecId == 2
\* execution records present before the first call
MaxLegacy == 3
\* cleanup and statistics calls issued in one behaviour
MaxAdminCalls == 2

(* ------------------------- program constants --------------------------- *)
\* LOCK_TTL_MS = 2 * 60 * 1000, in minutes
LOCK_TTL_MS == 2
MAX_ID_ATTEMPTS == 5

Tabs == {"tabA", "tabB"}
Cases == {"TC001", "TC002"}
CallIds == 1..MaxCalls
JobIds == 1..MaxJobs
\* document ids are opaque: the ids addDoc assigns in a behaviour are the odd
\* numbers, the ids of records present before are the even ones, so that a
\* new record may be listed before or after an old one
ExecIds == {2 * i - 1 : i \in 1..MaxExecId}
LegacyExecIds == {2 * i : i \in 1..MaxLegacy}

\* user.email of the session of each tab
UserOf(tab) == IF tab = "tabA" THEN "alice@example.com" ELSE "bob@example.com"

(* ------------------------------ run ids -------------------------------- *)
DigitChars == <<"0", "1", "2", "3", "4", "5", "6", "7", "8", "9">>

IsDigit(ch) == \E d \in 1..10 : DigitChars[d] = ch

DigitValue(ch) == (CHOOSE d \in 1..10 : DigitChars[d] = ch) - 1

\* num.toString()
RECURSIVE NumToString(_)
NumToString(n) ==
  IF n < 10 THEN <<DigitChars[n + 1]>>
  ELSE NumToString(n \div 10) \o <<DigitChars[(n % 10) + 1]>>

\* s.padStart(width, ch)
RECURSIVE PadStart(_, _, _)
PadStart(s, width, ch) ==
  IF Len(s) >= width THEN s ELSE PadStart(<<ch>> \o s, width, ch)

\* `TR${num.toString().padStart(3, '0')}`
formatTestRunId(num) == <<"T", "R">> \o PadStart(NumToString(num), 3, "0")

\* parseInt(digits, 10)
RECURSIVE ParseInt(_)
ParseInt(s) ==
  IF s = <<>> THEN 0
  ELSE 10 * ParseInt(SubSeq(s, 1, Len(s) - 1)) + DigitValue(s[Len(s)])

\* the longest run of digits of s starting at position i
RECURSIVE DigitsFrom(_, _)
DigitsFrom(s, i) ==
  IF i > Len(s) \/ ~IsDigit(s[i]) THEN <<>>
  ELSE <<s[i]>> \o DigitsFrom(s, i + 1)

\* id.match(/TR(\d+)/): the first place where "TR" is followed by a digit
extractRunNumber(id) ==
  LET starts == {i \in 1..Len(id) :
                   /\ i + 2 <= Len(id)
                   /\ id[i] = "T"
                   /\ id[i + 1] = "R"
                   /\ IsDigit(id[i + 2])}
  IN IF id = <<>> \/ starts = {} THEN 0
     ELSE LET first == CHOOSE i \in starts : \A j \in starts : i <= j
          IN ParseInt(DigitsFrom(id, first + 2))

\* the run whose lock and executions the service harness works on
R1 == formatTestRunId(1)

(* ----------------------------- documents ------------------------------- *)
NoToken == 0

NoLockDoc ==
  [exists |-> FALSE, lockId |-> NoToken, tabId |-> "", lockedBy |-> "",
   lockedAt |-> 0, expiresAt |-> 0]

\* the document acquireTestRunLock writes (lockedBy: options.lockedBy ||
\* 'unknown')
NewLockDoc(lockId, tabId, lockedBy, t) ==
  [exists |-> TRUE, lockId |-> lockId, tabId |-> tabId,
   lockedBy |-> IF lockedBy = "" THEN "unknown" ELSE lockedBy,
   lockedAt |-> t, expiresAt |-> t + LOCK_TTL_MS]

\* data.lockedBy || data.tabId
LockOwner(data) == IF data.lockedBy # "" THEN data.lockedBy ELSE data.tabId

\* a check that refuses every tab but the one in the document, expired or not
HeldByOther_IgnoresExpiry(existing, tabId, t) ==
  /\ existing.exists
  /\ existing.tabId # tabId

\* acquire: expires.getTime() > Date.now() && data.tabId !== tabId
HeldByOther(existing, tabId, t) ==
  /\ existing.exists
  /\ existing.expiresAt > t
  /\ existing.tabId # tabId

\* _assertLockOwnership: expires.getTime() <= Date.now()
IsExpired(data, t) == data.expiresAt <= t

\* _assertLockOwnership: !localLockId || data.lockId !== localLockId || data.tabId !== tabId
NotOwner(data, localLockId, tabId) ==
  \/ localLockId = NoToken
  \/ data.lockId # localLockId
  \/ data.tabId # tabId

\* the outcome of _assertLockOwnership on the lock document it read
AssertOutcome(lockSnap, localLockId, tabId, t) ==
  IF ~lockSnap.exists THEN "NoLock"
  ELSE IF IsExpired(lockSnap, t) THEN "Expired"
  ELSE IF NotOwner(lockSnap, localLockId, tabId) THEN "LockedByOther"
  ELSE "ok"

\* a release that deletes whatever lock it finds
ReleaseMatches_Always(data, effectiveLockId, tabId) == TRUE

\* release: data.lockId === effectiveLockId || data.tabId === tabId
ReleaseMatches(data, effectiveLockId, tabId) ==
  data.lockId = effectiveLockId \/ data.tabId = tabId

(* ------------------------------- state --------------------------------- *)
VARIABLES
  now,              \* Date.now() / Timestamp.now(), in minutes
  locks,            \* collection testRunLocks: run id -> lock document
  localLockTokens,  \* per tab: run id -> lock id recorded by this tab
  execs,            \* collection testCaseExecutions: a set of documents
  calls,            \* the service calls: call id -> record
  runs,             \* collection testRuns: a set of documents
  counter,          \* document appMetadata/testRunCounter
  jobs,             \* the workflows started so far, finished ones included
  isDuplicatingRef  \* per tab: isDuplicatingRef.current of the TestRuns page

vars ==
  <<now, locks, localLockTokens, execs, calls, runs, counter, jobs, isDuplicatingRef>>

\* what the lock and execution services never touch
serviceFrame == <<runs, counter, jobs, isDuplicatingRef>>

NoCounterDoc == [exists |-> FALSE, current |-> 0]

NoRunId == <<>>

\* a workflow: a bare generateTestRunId call, or a confirmDuplicate
\* invocation with its locals (source: duplicateSourceId, name:
\* newTestRunName, outer: the attempt of createWithGeneratedId, newId:
\* newTestRunId, lockId, list: uniqueExecutions, issued: creates under way),
\* or a handleSubmit of the run form (selected: uniqueSelectedTestCases,
\* source: the id of the edited run, list: existingExecutions)
NoJob ==
  [kind |-> "none", tab |-> "", pc |-> "idle", seedValue |-> 0, attempt |-> 0,
   snap |-> NoCounterDoc, next |-> 0, got |-> <<>>, tries |-> 0,
   res |-> "", ret |-> NoRunId,
   source |-> NoRunId, name |-> "", outer |-> 0, newId |-> NoRunId,
   lockId |-> NoToken, list |-> <<>>, issued |-> 0, selected |-> <<>>]

NoExecArgs == [actualResult |-> "", status |-> "", testedBy |-> "", order |-> 0]

\* list: the executions array of cleanupDuplicates; todo: duplicatesToDelete;
\* stats: the result of getTestRunStats; results: that of cleanupAllDuplicates
NoCall ==
  [op |-> "none", tab |-> "", pc |-> "idle", run |-> <<>>, case |-> "",
   args |-> NoExecArgs, token |-> NoToken, snap |-> NoLockDoc, wr |-> NoLockDoc,
   res |-> "", ret |-> 0, owner |-> "", tries |-> 0, parent |-> 0,
   list |-> <<>>, todo |-> <<>>, results |-> <<>>,
   stats |-> [total |-> 0, passed |-> 0, failed |-> 0, blocked |-> 0, skipped |-> 0,
              notRun |-> 0]]

\* the lock document of run r as a store read returns it
LockIn(ls, r) == IF r \in DOMAIN ls THEN ls[r] ELSE NoLockDoc

LockDoc(r) == LockIn(locks, r)

\* the collection after set(lockRef, d), or after delete(lockRef) when d is
\* the absent document
WithLock(ls, r, d) ==
  IF d.exists
  THEN [x \in DOMAIN ls \cup {r} |-> IF x = r THEN d ELSE ls[x]]
  ELSE [x \in DOMAIN ls \ {r} |-> ls[x]]

\* localLockTokens.get(r) of a tab
TokenIn(ts, tab, r) == IF r \in DOMAIN ts[tab] THEN ts[tab][r] ELSE NoToken

LocalToken(tab, r) == TokenIn(localLockTokens, tab, r)

\* the maps after localLockTokens.set(r, t) in a tab, or .delete(r) when t
\* is no token
WithToken(ts, tab, r, t) ==
  [ts EXCEPT ![tab] =
     IF t # NoToken
     THEN [x \in DOMAIN ts[tab] \cup {r} |-> IF x = r THEN t ELSE ts[tab][x]]
     ELSE [x \in DOMAIN ts[tab] \ {r} |-> ts[tab][x]]]

\* the record of call c, before it is issued as well
CallIn(cs, c) == IF c \in DOMAIN cs THEN cs[c] ELSE NoCall

Call(c) == CallIn(calls, c)

\* the record of workflow j, before it is started as well
JobIn(js, j) == IF j \in DOMAIN js THEN js[j] ELSE NoJob

Job(j) == JobIn(jobs, j)

\* no call yet
NoCalls == [c \in {} |-> NoCall]

\* the number the next call of a harness gets
NextCallId == Cardinality(DOMAIN calls) + 1

\* the number of the k-th call of workflow j: its acquire, its release, its
\* creates
JobCallId(j, k) == MaxCalls * j + k

\* a call record is left
NextSlot == Cardinality(DOMAIN calls) < MaxCalls

\* the harness issues at most MaxHarnessCalls calls
HarnessSlot == Cardinality(DOMAIN calls) < MaxHarnessCalls

\* the two tabs run the same code: the first call is tabA's
FirstCaller(tab) == DOMAIN calls = {} => tab = "tabA"

\* the cases are interchangeable: TC002 is used once TC001 has been
FirstCase(testCaseId) ==
  testCaseId = "TC001" \/ \E d \in DOMAIN calls : calls[d].op = "create" /\ calls[d].case = "TC001"

\* the execution documents of a (testRunId, testCaseId) pair
Matching(es, testRunId, testCaseId) ==
  {e \in es : e.testRunId = testRunId /\ e.testCaseId = testCaseId}

\* a check that never finds a record
existsByTestRunAndTestCase_Never(es, testRunId, testCaseId) == FALSE

\* existsByTestRunAndTestCase: !querySnapshot.empty
existsByTestRunAndTestCase(es, testRunId, testCaseId) ==
  Matching(es, testRunId, testCaseId) # {}

\* querySnapshot.docs[0]?.id || '' (a query lists documents by document id)
FirstMatchingId(es, testRunId, testCaseId) ==
  LET m == Matching(es, testRunId, testCaseId)
  IN IF m = {} THEN 0
     ELSE (CHOOSE e \in m : \A f \in m : e.id <= f.id).id

\* the order field of a record stored without one
NoOrder == -1

\* order ?? 0
OrderOrZero(order) == IF order = NoOrder THEN 0 ELSE order

\* the document addDoc writes in create
NewExecDoc(id, testRunId, testCaseId, args, t) ==
  [id |-> id, testRunId |-> testRunId, testCaseId |-> testCaseId,
   actualResult |-> args.actualResult, status |-> args.status,
   testedBy |-> args.testedBy, executionDate |-> t,
   order |-> OrderOrZero(args.order)]

(* ------------------------- acquireTestRunLock -------------------------- *)
\* the call records after call c got record rec
PutCall(cs, c, rec) == [x \in DOMAIN cs \cup {c} |-> IF x = c THEN rec ELSE cs[x]]

SetCall(c, rec) == PutCall(calls, c, rec)

\* the call records without those whose caller has taken the result
WithoutCalls(cs, gone) == [x \in DOMAIN cs \ gone |-> cs[x]]

\* the record of a call acquireTestRunLock(run, {lockedBy: user.email}); the
\* lock id is fresh for every call
AcquireCall(c, tab, run, parent) ==
  [NoCall EXCEPT !.op = "acquire", !.tab = tab, !.run = run, !.token = c,
                 !.parent = parent]

\* the transaction body of call c (record `base`): read the lock, throw or
\* stage the write and record the token locally
AcquireBodyStep(c, base) ==
  LET existing == LockDoc(base.run)
  IN IF HeldByOther(existing, base.tab, now)
     THEN /\ calls' = SetCall(c,
                [base EXCEPT !.pc = "done", !.res = "LockedByOther",
                             !.owner = LockOwner(existing),
                             !.snap = NoLockDoc, !.wr = NoLockDoc,
                             !.tries = @ + 1])
          /\ UNCHANGED localLockTokens
     ELSE /\ calls' = SetCall(c,
                [base EXCEPT !.pc = "txCommit", !.snap = existing,
                             !.wr = NewLockDoc(base.token, base.tab, UserOf(base.tab), now),
                             !.tries = @ + 1])
          /\ localLockTokens' = WithToken(localLockTokens, base.tab, base.run, base.token)

\* the transaction body runs again after a rejected commit
AcquireBody(c) ==
  /\ calls[c].op = "acquire" /\ calls[c].pc = "txBody"
  /\ AcquireBodyStep(c, calls[c])
  /\ UNCHANGED <<now, locks, execs>>
  /\ UNCHANGED serviceFrame

\* a store that applies every commit, whatever happened since the read
CommitAccepted_Blind(current, snap) == TRUE

\* whether the store accepts a transaction that read `snap`: the document
\* must be as the transaction read it
CommitAccepted(current, snap) == current = snap

\* the commit: applied when the lock document is as the body read it, else
\* the body runs again
AcquireCommit(c) ==
  /\ calls[c].op = "acquire" /\ calls[c].pc = "txCommit"
  /\ IF CommitAccepted(LockDoc(calls[c].run), calls[c].snap)
     THEN /\ locks' = WithLock(locks, calls[c].run, calls[c].wr)
          /\ calls' = [calls EXCEPT ![c].pc = "done", ![c].res = "ok",
                                    ![c].ret = calls[c].token,
                                    ![c].snap = NoLockDoc, ![c].wr = NoLockDoc]
     ELSE /\ calls' = [calls EXCEPT ![c].pc = "txBody"]
          /\ UNCHANGED locks
  /\ UNCHANGED <<now, localLockTokens, execs>>
  /\ UNCHANGED serviceFrame

(* ------------------------- releaseTestRunLock -------------------------- *)
\* the record of a call releaseTestRunLock(run, lockId?) with effectiveLockId
\* = lockId || localLockTokens.get(testRunId): without an effective lock id
\* the call returns at once
ReleaseCall(tab, run, lockId, parent) ==
  LET eff == IF lockId # NoToken THEN lockId ELSE LocalToken(tab, run)
  IN [NoCall EXCEPT !.op = "release", !.tab = tab, !.run = run, !.token = eff,
                    !.pc = IF eff = NoToken THEN "done" ELSE "txBody",
                    !.res = IF eff = NoToken THEN "ok" ELSE "",
                    !.parent = parent]

ReleaseBody(c) ==
  /\ calls[c].op = "release" /\ calls[c].pc = "txBody"
  /\ LET existing == LockDoc(calls[c].run)
         tab == calls[c].tab
     IN /\ calls' = [calls EXCEPT ![c].pc = "txCommit", ![c].snap = existing,
                       ![c].wr = IF existing.exists /\ ReleaseMatches(existing, calls[c].token, tab)
                                 THEN NoLockDoc ELSE existing,
                       ![c].tries = @ + 1]
        /\ localLockTokens' =
             IF ~existing.exists
             THEN WithToken(localLockTokens, tab, calls[c].run, NoToken)
             ELSE localLockTokens
  /\ UNCHANGED <<now, locks, execs>>
  /\ UNCHANGED serviceFrame

ReleaseCommit(c) ==
  /\ calls[c].op = "release" /\ calls[c].pc = "txCommit"
  /\ LET tab == calls[c].tab
         run == calls[c].run
     IN IF CommitAccepted(LockDoc(run), calls[c].snap)
        THEN /\ locks' = WithLock(locks, run, calls[c].wr)
             /\ calls' = [calls EXCEPT ![c].pc = "done", ![c].res = "ok",
                                       ![c].snap = NoLockDoc, ![c].wr = NoLockDoc]
             /\ localLockTokens' =
                  IF LocalToken(tab, run) = calls[c].token
                  THEN WithToken(localLockTokens, tab, run, NoToken)
                  ELSE localLockTokens
        ELSE /\ calls' = [calls EXCEPT ![c].pc = "txBody"]
             /\ UNCHANGED <<locks, localLockTokens>>
  /\ UNCHANGED <<now, execs>>
  /\ UNCHANGED serviceFrame

(* -------------------- create (with _assertLockOwnership) ---------------- *)
\* the record of a call create({testRunId: run, testCaseId, ...args}) after
\* its first store access, _assertLockOwnership: getDoc(lockRef) and the
\* checks on what it returned
CreateCall(tab, run, testCaseId, args, parent) ==
  LET lockSnap == LockDoc(run)
      outcome == AssertOutcome(lockSnap, LocalToken(tab, run), tab, now)
  IN [NoCall EXCEPT
        !.op = "create", !.tab = tab, !.run = run, !.case = testCaseId,
        !.args = args, !.parent = parent,
        !.snap = IF outcome = "Expired" THEN lockSnap ELSE NoLockDoc,
        !.pc = CASE outcome = "ok" -> "exists"
                 [] outcome = "Expired" -> "assertDelete"
                 [] OTHER -> "done",
        !.res = IF outcome \in {"NoLock", "LockedByOther"} THEN outcome ELSE "",
        !.owner = CASE outcome = "NoLock" -> "unknown"
                    [] outcome = "LockedByOther" -> LockOwner(lockSnap)
                    [] OTHER -> ""]

\* _assertLockOwnership on an expired lock: deleteDoc(lockRef), forget the
\* local token, throw
CreateAssertDelete(c) ==
  /\ calls[c].op = "create" /\ calls[c].pc = "assertDelete"
  /\ locks' = WithLock(locks, calls[c].run, NoLockDoc)
  /\ localLockTokens' = WithToken(localLockTokens, calls[c].tab, calls[c].run, NoToken)
  /\ calls' = [calls EXCEPT ![c].pc = "done", ![c].res = "Expired",
                            ![c].owner = LockOwner(calls[c].snap),
                            ![c].snap = NoLockDoc]
  /\ UNCHANGED <<now, execs>>
  /\ UNCHANGED serviceFrame

\* existsByTestRunAndTestCase
CreateExists(c) ==
  /\ calls[c].op = "create" /\ calls[c].pc = "exists"
  /\ calls' = [calls EXCEPT ![c].pc =
       IF existsByTestRunAndTestCase(execs, calls[c].run, calls[c].case)
       THEN "lookup" ELSE "add"]
  /\ UNCHANGED <<now, locks, localLockTokens, execs>>
  /\ UNCHANGED serviceFrame

\* the second query of the duplicate branch: return the existing id
CreateLookup(c) ==
  /\ calls[c].op = "create" /\ calls[c].pc = "lookup"
  /\ calls' = [calls EXCEPT ![c].pc = "done", ![c].res = "ok",
                            ![c].ret = FirstMatchingId(execs, calls[c].run, calls[c].case)]
  /\ UNCHANGED <<now, locks, localLockTokens, execs>>
  /\ UNCHANGED serviceFrame

\* addDoc: the store assigns an unused document id
CreateAdd(c) ==
  /\ calls[c].op = "create" /\ calls[c].pc = "add"
  /\ \E id \in ExecIds :
       /\ \A e \in execs : e.id # id
       /\ execs' = execs \cup
            {NewExecDoc(id, calls[c].run, calls[c].case, calls[c].args, now)}
       /\ calls' = [calls EXCEPT ![c].pc = "done", ![c].res = "ok", ![c].ret = id]
  /\ UNCHANGED <<now, locks, localLockTokens>>
  /\ UNCHANGED serviceFrame

\* time passes; the clock is read only to stamp documents and to compare
\* with a lock's expiresAt, so it is advanced only while a lock is unexpired
Tick ==
  /\ now < MaxTime
  /\ \E r \in DOMAIN locks : locks[r].expiresAt > now
  /\ now' = now + 1
  /\ UNCHANGED <<locks, localLockTokens, execs, calls>>
  /\ UNCHANGED serviceFrame

(* --------------------------- service harness --------------------------- *)
\* tabs call the lock and execution services on run R1 in any order
StartAcquire(tab) ==
  /\ HarnessSlot
  /\ FirstCaller(tab)
  /\ AcquireBodyStep(NextCallId, AcquireCall(NextCallId, tab, R1, 0))
  /\ UNCHANGED <<now, locks, execs>>
  /\ UNCHANGED serviceFrame

StartRelease(tab, lockId) ==
  /\ HarnessSlot
  /\ FirstCaller(tab)
  /\ calls' = SetCall(NextCallId, ReleaseCall(tab, R1, lockId, 0))
  /\ UNCHANGED <<now, locks, localLockTokens, execs>>
  /\ UNCHANGED serviceFrame

\* every create of the harness supplies a different order value
StartCreate(tab, testCaseId) ==
  /\ HarnessSlot
  /\ FirstCaller(tab)
  /\ FirstCase(testCaseId)
  /\ calls' = SetCall(NextCallId,
       CreateCall(tab, R1, testCaseId,
                  [actualResult |-> "", status |-> "Not Run", testedBy |-> "",
                   order |-> NextCallId], 0))
  /\ UNCHANGED <<now, locks, localLockTokens, execs>>
  /\ UNCHANGED serviceFrame

\* no lock document, no local token, no call and no workflow yet
NoLocks == [r \in {} |-> NoLockDoc]

NoTokens == [t \in Tabs |-> [r \in {} |-> NoToken]]

\* useRef(false) in every tab
NoGuards == [t \in Tabs |-> FALSE]

Init ==
  /\ now = 0
  /\ locks = NoLocks
  /\ localLockTokens = NoTokens
  /\ execs = {}
  /\ calls = NoCalls
  /\ runs = {}
  /\ counter = NoCounterDoc
  /\ jobs = <<>>
  /\ isDuplicatingRef = NoGuards

Next ==
  \/ \E tab \in Tabs : StartAcquire(tab)
  \/ \E c \in DOMAIN calls : AcquireBody(c)
  \/ \E c \in DOMAIN calls : AcquireCommit(c)
  \* the lock ids a tab may pass to release: none, or one an acquire returned
  \* to it
  \/ \E tab \in Tabs :
       \E lockId \in {NoToken} \cup {calls[d].ret : d \in {e \in DOMAIN calls :
                        calls[e].op = "acquire" /\ calls[e].tab = tab /\ calls[e].res = "ok"}} :
         StartRelease(tab, lockId)
  \/ \E c \in DOMAIN calls : ReleaseBody(c)
  \/ \E c \in DOMAIN calls : ReleaseCommit(c)
  \/ \E tab \in Tabs, k \in Cases : StartCreate(tab, k)
  \/ \E c \in DOMAIN calls : CreateAssertDelete(c)
  \/ \E c \in DOMAIN calls : CreateExists(c)
  \/ \E c \in DOMAIN calls : CreateLookup(c)
  \/ \E c \in DOMAIN calls : CreateAdd(c)
  \/ Tick

Spec == Init /\ [][Next]_vars

(* ------------------------- generateTestRunId --------------------------- *)
\* the documents of a collection query ordered by createdAt descending: the
\* first one (equal stamps are listed by document id, descending as well)
LatestRun(rs) ==
  CHOOSE r \in rs : \A q \in rs :
    \/ q.createdAt < r.createdAt
    \/ q.createdAt = r.createdAt /\ extractRunNumber(q.id) <= extractRunNumber(r.id)

\* a seed taken from the greatest number among the ids of the collection
getSeedRunNumber_Max(rs) ==
  IF rs = {} THEN 0
  ELSE CHOOSE m \in {extractRunNumber(r.id) : r \in rs} :
         \A r \in rs : extractRunNumber(r.id) <= m

\* getSeedRunNumber: 0 for an empty collection, else the number in the id
\* of the most recently created run
getSeedRunNumber(rs) == IF rs = {} THEN 0 ELSE extractRunNumber(LatestRun(rs).id)

\* a body that never reads the counter document
NextCounterValue_FromSeed(counterSnap, seedValue) == seedValue + 1

\* the transaction body of generateTestRunId: currentValue + 1
NextCounterValue(counterSnap, seedValue) ==
  (IF counterSnap.exists THEN counterSnap.current ELSE seedValue) + 1

\* getDoc(doc(db, 'testRuns', id)).exists()
RunExists(rs, id) == \E r \in rs : r.id = id

\* Timestamp.now() of a run document: later than the stamp of every run
\* created before
NextCreatedAt(rs) ==
  IF rs = {} THEN 1
  ELSE (CHOOSE r \in rs : \A q \in rs : q.createdAt <= r.createdAt).createdAt + 1

\* a workflow may still be started
NextJob == Len(jobs) < MaxJobs

jobFrame == <<now, locks, localLockTokens, execs, calls, isDuplicatingRef>>

\* generateTestRunId: const seedValue = await getSeedRunNumber()
GenSeed(j) ==
  /\ jobs[j].pc = "seed"
  /\ jobs' = [jobs EXCEPT ![j].seedValue = getSeedRunNumber(runs),
                          ![j].attempt = 0, ![j].pc = "txBody"]
  /\ UNCHANGED <<runs, counter>>
  /\ UNCHANGED jobFrame

\* the counter transaction's body: read the counter, stage current + 1
GenTxBody(j) ==
  /\ jobs[j].pc = "txBody"
  /\ NextCounterValue(counter, jobs[j].seedValue) <= MaxRunNo
  /\ jobs' = [jobs EXCEPT ![j].snap = counter,
                          ![j].next = NextCounterValue(counter, jobs[j].seedValue),
                          ![j].tries = @ + 1,
                          ![j].pc = "txCommit"]
  /\ UNCHANGED <<runs, counter>>
  /\ UNCHANGED jobFrame

\* the counter transaction's commit, or the body again when the counter
\* changed since it was read
GenTxCommit(j) ==
  /\ jobs[j].pc = "txCommit"
  /\ IF CommitAccepted(counter, jobs[j].snap)
     THEN /\ counter' = [exists |-> TRUE, current |-> jobs[j].next]
          /\ jobs' = [jobs EXCEPT ![j].got = Append(@, jobs[j].next), ![j].pc = "probe"]
     ELSE /\ jobs' = [jobs EXCEPT ![j].pc = "txBody"]
          /\ UNCHANGED counter
  /\ UNCHANGED runs
  /\ UNCHANGED jobFrame

\* where generateTestRunId hands its id to: a bare call is over,
\* createWithGeneratedId goes on to create the run, and so does the run form
AfterGenerate(kind) ==
  CASE kind = "generate" -> "done"
    [] kind = "form" -> "formCheck"
    [] OTHER -> "createCheck"

\* where its error goes to: the finally block of confirmDuplicate has no lock
\* to release and starts the timer that resets the guard; the catch block of
\* the run form shows 'Failed to save test run'
AfterError(kind) == IF kind \in {"generate", "form"} THEN "done" ELSE "cooldown"

\* a probe that goes on to the next attempt however many were made
GenProbe_NoBound(j) ==
  /\ jobs[j].pc = "probe"
  /\ LET candidateId == formatTestRunId(jobs[j].next)
     IN IF ~RunExists(runs, candidateId)
        THEN jobs' = [jobs EXCEPT ![j].ret = candidateId,
                                  ![j].res = IF AfterGenerate(jobs[j].kind) = "done"
                                             THEN "ok" ELSE "",
                                  ![j].pc = AfterGenerate(jobs[j].kind)]
        ELSE jobs' = [jobs EXCEPT ![j].attempt = @ + 1, ![j].pc = "txBody"]
  /\ UNCHANGED <<runs, counter>>
  /\ UNCHANGED jobFrame

\* the probe of the candidate id: return it when no run has it, else the
\* next attempt, and the allocation error after MAX_ID_ATTEMPTS attempts
GenProbe(j) ==
  /\ jobs[j].pc = "probe"
  /\ LET candidateId == formatTestRunId(jobs[j].next)
     IN IF ~RunExists(runs, candidateId)
        THEN jobs' = [jobs EXCEPT ![j].ret = candidateId,
                                  ![j].res = IF AfterGenerate(jobs[j].kind) = "done"
                                             THEN "ok" ELSE "",
                                  ![j].pc = AfterGenerate(jobs[j].kind)]
        ELSE IF jobs[j].attempt + 1 < MAX_ID_ATTEMPTS
        THEN jobs' = [jobs EXCEPT ![j].attempt = @ + 1, ![j].pc = "txBody"]
        ELSE jobs' = [jobs EXCEPT ![j].attempt = @ + 1,
                                  ![j].pc = AfterError(jobs[j].kind),
                                  ![j].res = "AllocationError"]
  /\ UNCHANGED <<runs, counter>>
  /\ UNCHANGED jobFrame

(* --------------------- id allocation under contention ------------------ *)
\* a caller (any tab) calls generateTestRunId
StartGenerate ==
  /\ NextJob
  /\ jobs' = Append(jobs, [NoJob EXCEPT !.kind = "generate", !.pc = "seed"])
  /\ UNCHANGED <<runs, counter>>
  /\ UNCHANGED jobFrame

\* the run numbers of the runs that exist before the first allocation
SeedRunNos == {1, 2, 5}

RunDoc(id, name, createdAt) == [id |-> id, name |-> name, createdAt |-> createdAt]

\* the collections of pre-existing runs: any of the runs of SeedRunNos,
\* created in any order (createdAt 1, 2, ...)
InitRunSets ==
  {rs \in SUBSET {RunDoc(formatTestRunId(n), "", t) :
                    n \in SeedRunNos, t \in 1..Cardinality(SeedRunNos)} :
     /\ \A r, q \in rs : r # q => r.id # q.id /\ r.createdAt # q.createdAt
     /\ \A r \in rs : r.createdAt <= Cardinality(rs)}

\* the counter document is absent, or was left by earlier allocations
InitCounters == {NoCounterDoc, [exists |-> TRUE, current |-> 1]}

InitId ==
  /\ now = 0
  /\ locks = NoLocks
  /\ localLockTokens = NoTokens
  /\ execs = {}
  /\ calls = NoCalls
  /\ runs \in InitRunSets
  /\ counter \in InitCounters
  /\ jobs = <<>>
  /\ isDuplicatingRef = NoGuards

NextId ==
  \/ StartGenerate
  \/ \E j \in DOMAIN jobs : GenSeed(j)
  \/ \E j \in DOMAIN jobs : GenTxBody(j)
  \/ \E j \in DOMAIN jobs : GenTxCommit(j)
  \/ \E j \in DOMAIN jobs : GenProbe(j)

SpecId == InitId /\ [][NextId]_vars

\* allocations on a collection in which the ids after TR001 are taken:
\* TR002..TR005, and TR002..TR006, as many as one call has attempts
InitCrowded ==
  /\ now = 0
  /\ locks = NoLocks
  /\ localLockTokens = NoTokens
  /\ execs = {}
  /\ calls = NoCalls
  /\ runs \in {{RunDoc(formatTestRunId(n), "", n - 1) : n \in 2..k} :
                 k \in {MAX_ID_ATTEMPTS, MAX_ID_ATTEMPTS + 1}}
  /\ counter \in InitCounters
  /\ jobs = <<>>
  /\ isDuplicatingRef = NoGuards

SpecCrowded == InitCrowded /\ [][NextId]_vars

(* --------------------------- getByTestRunId ---------------------------- *)
\* the documents of a query, in the order the store lists them: by document id
RECURSIVE QueryDocs(_)
QueryDocs(es) ==
  IF es = {} THEN <<>>
  ELSE LET first == CHOOSE e \in es : \A f \in es : e.id <= f.id
       IN <<first>> \o QueryDocs(es \ {first})

\* the object built from a document with the order field left as it is stored
ExecView_AsStored(e) == e

\* the object getByTestRunId builds from a document: order: data.order ?? 0
ExecView(e) == [e EXCEPT !.order = OrderOrZero(e.order)]

\* a comparator that looks at the order only
compareExecutions_ByOrderOnly(a, b) == a.order - b.order

\* the comparator of results.sort: order ascending, then executionDate descending
compareExecutions(a, b) ==
  IF a.order # b.order THEN a.order - b.order
  ELSE b.executionDate - a.executionDate

\* x put into a sorted array behind every element that does not come after it
InsertSorted(sorted, x) ==
  LET after == {i \in 1..Len(sorted) : compareExecutions(sorted[i], x) > 0}
      pos == IF after = {} THEN Len(sorted) + 1
             ELSE CHOOSE i \in after : \A j \in after : i <= j
  IN SubSeq(sorted, 1, pos - 1) \o <<x>> \o SubSeq(sorted, pos, Len(sorted))

\* Array.prototype.sort with that comparator: a stable sort
RECURSIVE SortExecutions(_)
SortExecutions(seq) ==
  IF seq = <<>> THEN <<>>
  ELSE InsertSorted(SortExecutions(SubSeq(seq, 1, Len(seq) - 1)), seq[Len(seq)])

getByTestRunId(es, testRunId) ==
  LET docs == QueryDocs({e \in es : e.testRunId = testRunId})
  IN SortExecutions([i \in 1..Len(docs) |-> ExecView(docs[i])])

(* -------------------------- cleanupDuplicates -------------------------- *)
\* the loop over executions: the id of every record whose testCaseId was
\* seen at an earlier position
RECURSIVE duplicatesToDelete(_)
duplicatesToDelete(executions) ==
  IF executions = <<>> THEN <<>>
  ELSE LET n == Len(executions)
           front == SubSeq(executions, 1, n - 1)
       IN IF \E i \in 1..(n - 1) : executions[i].testCaseId = executions[n].testCaseId
          THEN Append(duplicatesToDelete(front), executions[n].id)
          ELSE duplicatesToDelete(front)

\* a delete that removes nothing
WithoutExec_Noop(es, id) == es

\* the collection after deleteDoc of the document with this id
WithoutExec(es, id) == {e \in es : e.id # id}

\* the record of a call cleanupDuplicates(run) after getByTestRunId and the
\* loop that finds the duplicates; without duplicates it returns 0 at once
CleanupCall(tab, run) ==
  LET executions == getByTestRunId(execs, run)
      dups == duplicatesToDelete(executions)
  IN [NoCall EXCEPT !.op = "cleanup", !.tab = tab, !.run = run,
                    !.list = executions, !.todo = dups,
                    !.pc = IF dups = <<>> THEN "done" ELSE "delete",
                    !.res = IF dups = <<>> THEN "ok" ELSE "",
                    !.ret = IF dups = <<>> THEN Len(dups) ELSE 0]

\* await this.delete(id) for the next id of duplicatesToDelete; after the
\* last one cleanupDuplicates returns duplicatesToDelete.length (and
\* cleanupAllDuplicates, whose deletes are the same calls, its results)
CleanupDelete(c) ==
  /\ calls[c].op \in {"cleanup", "cleanupAll"} /\ calls[c].pc = "delete"
  /\ LET i == calls[c].tries + 1
         last == i = Len(calls[c].todo)
     IN /\ execs' = WithoutExec(execs, calls[c].todo[i])
        /\ calls' = [calls EXCEPT ![c].tries = i,
                                  ![c].pc = IF last THEN "done" ELSE "delete",
                                  ![c].res = IF last THEN "ok" ELSE "",
                                  ![c].ret = IF last /\ calls[c].op = "cleanup"
                                             THEN Len(calls[c].todo) ELSE 0]
  /\ UNCHANGED <<now, locks, localLockTokens>>
  /\ UNCHANGED serviceFrame

(* --------------------------- getTestRunStats --------------------------- *)
\* executions.find(e => e.testCaseId === testCaseId)
FindByCase(executions, testCaseId) ==
  executions[CHOOSE i \in 1..Len(executions) :
               /\ executions[i].testCaseId = testCaseId
               /\ \A j \in 1..(i - 1) : executions[j].testCaseId # testCaseId]

\* uniqueExecutions.filter(e => e.status === status).length
CountStatus(executions, ids, status) ==
  Cardinality({k \in ids : FindByCase(executions, k).status = status})

\* every record counted, with no deduplication
getTestRunStats_PerRecord(executions) ==
  LET n(status) == Cardinality({i \in 1..Len(executions) : executions[i].status = status})
  IN [total |-> Len(executions), passed |-> n("Pass"), failed |-> n("Fail"),
      blocked |-> n("Blocked"), skipped |-> n("Skip"), notRun |-> n("Not Run")]

getTestRunStats(executions) ==
  LET uniqueTestCaseIds == {executions[i].testCaseId : i \in 1..Len(executions)}
  IN [total |-> Cardinality(uniqueTestCaseIds),
      passed |-> CountStatus(executions, uniqueTestCaseIds, "Pass"),
      failed |-> CountStatus(executions, uniqueTestCaseIds, "Fail"),
      blocked |-> CountStatus(executions, uniqueTestCaseIds, "Blocked"),
      skipped |-> CountStatus(executions, uniqueTestCaseIds, "Skip"),
      notRun |-> CountStatus(executions, uniqueTestCaseIds, "Not Run")]

\* the record of a call getTestRunStats(run): one query, then the counts
StatsCall(tab, run) ==
  [NoCall EXCEPT !.op = "stats", !.tab = tab, !.run = run, !.pc = "done",
                 !.res = "ok", !.stats = getTestRunStats(getByTestRunId(execs, run))]

(* ------------------- cleanup and statistics on old data ---------------- *)
\* a second run, whose records the calls on R1 must leave alone
R2 == formatTestRunId(2)

Statuses == {"Pass", "Fail", "Blocked", "Skip", "Not Run"}

\* one call at a time (the tab does not matter to these calls), no other
\* writer, at most MaxAdminCalls calls
AdminSlot ==
  /\ Cardinality(DOMAIN calls) < MaxAdminCalls
  /\ \A c \in DOMAIN calls : calls[c].pc = "done"

StartCleanup ==
  /\ AdminSlot
  /\ calls' = SetCall(NextCallId, CleanupCall("tabA", R1))
  /\ UNCHANGED <<now, locks, localLockTokens, execs>>
  /\ UNCHANGED serviceFrame

StartStats ==
  /\ AdminSlot
  /\ calls' = SetCall(NextCallId, StatsCall("tabA", R1))
  /\ UNCHANGED <<now, locks, localLockTokens, execs>>
  /\ UNCHANGED serviceFrame

\* an execution document as it is stored
ExecDoc(id, testRunId, testCaseId, status, executionDate, order) ==
  [id |-> id, testRunId |-> testRunId, testCaseId |-> testCaseId,
   actualResult |-> "", status |-> status, testedBy |-> "",
   executionDate |-> executionDate, order |-> order]

\* records of R1 with any case, any order (or none) and any of two dates, all
\* 'Not Run'; records of R2 are all alike
CleanupContents ==
  {ExecDoc(0, R1, k, "Not Run", d, o) : k \in Cases, d \in {0, 1}, o \in {NoOrder, 0, 1}}
  \cup {ExecDoc(0, R2, "TC001", "Not Run", 0, 0)}

\* records of R1 with any case, any status and one of two orders
StatsContents ==
  {ExecDoc(0, R1, k, st, 0, o) : k \in Cases, st \in Statuses, o \in {0, 1}}
  \cup {ExecDoc(0, R2, "TC001", "Pass", 0, 0)}

\* the store holds, under each of the first n old ids, any of the contents;
\* the cases are interchangeable: the record with the lowest id has TC001
InitAdmin(contents) ==
  /\ now = 1
  /\ locks = NoLocks
  /\ localLockTokens = NoTokens
  /\ \E n \in 0..MaxLegacy : \E f \in [{i \in LegacyExecIds : i <= 2 * n} -> contents] :
       /\ execs = {[f[id] EXCEPT !.id = id] : id \in DOMAIN f}
       /\ \A e \in execs : (\A g \in execs : e.id <= g.id) => e.testCaseId = "TC001"
  /\ calls = NoCalls
  /\ runs = {}
  /\ counter = NoCounterDoc
  /\ jobs = <<>>
  /\ isDuplicatingRef = NoGuards

NextCleanup ==
  \/ StartCleanup
  \/ \E c \in DOMAIN calls : CleanupDelete(c)

SpecCleanup == InitAdmin(CleanupContents) /\ [][NextCleanup]_vars

SpecStats == InitAdmin(StatsContents) /\ [][StartStats]_vars

(* ---------------------- testRunsService.duplicate ---------------------- *)
\* String.prototype.toLowerCase on the run names that occur
ToLowerCase(name) ==
  CASE name = "Run A" -> "run a"
    [] name = "Run B" -> "run b"
    [] name = "Copy" -> "copy"
    [] OTHER -> name

\* a comparison of the names as they are written
nameExists_CaseSensitive(rs, name) == \E r \in rs : r.name = name

\* nameExists: allRuns.some(run => run.name.toLowerCase() === name.toLowerCase())
nameExists(rs, name) == \E r \in rs : ToLowerCase(r.name) = ToLowerCase(name)

\* the collection after setDoc(doc(db, 'testRuns', id), {...}): a document
\* with this id is replaced
WithRun(rs, id, name) ==
  {r \in rs : r.id # id} \cup {RunDoc(id, name, NextCreatedAt(rs))}

\* the collection after deleteDoc(doc(db, 'testRuns', id))
WithoutRun(rs, id) == {r \in rs : r.id # id}

\* the filter of confirmDuplicate: the first execution of every testCaseId
RECURSIVE uniqueExecutions(_)
uniqueExecutions(executions) ==
  IF executions = <<>> THEN <<>>
  ELSE LET n == Len(executions)
           front == SubSeq(executions, 1, n - 1)
       IN IF \E i \in 1..(n - 1) : executions[i].testCaseId = executions[n].testCaseId
          THEN uniqueExecutions(front)
          ELSE Append(uniqueExecutions(front), executions[n])

\* the calls of a workflow that are under way or whose result it has not
\* taken yet
CallsOf(j, op) == {c \in DOMAIN calls : calls[c].parent = j /\ calls[c].op = op}

\* those of them that have returned
Returned(j, op) == {c \in CallsOf(j, op) : calls[c].pc = "done"}

dupFrame == <<now, locks, localLockTokens, execs, calls>>

\* confirmDuplicate up to the answer of validateName: the guard, the empty
\* name, the query of nameExists
StartDup(tab, source, name) ==
  /\ NextJob
  /\ jobs = <<>> => tab = "tabA"
  /\ LET base == [NoJob EXCEPT !.kind = "dup", !.tab = tab, !.source = source,
                               !.name = name]
     IN jobs' = Append(jobs,
          IF isDuplicatingRef[tab]
          THEN [base EXCEPT !.pc = "done", !.res = "Blocked"]
          ELSE IF name = "" \/ nameExists(runs, name)
          THEN [base EXCEPT !.pc = "done", !.res = "ValidationFailed"]
          ELSE [base EXCEPT !.pc = "getById"])
  /\ UNCHANGED <<runs, counter, isDuplicatingRef>>
  /\ UNCHANGED dupFrame

\* isDuplicatingRef.current = true; duplicate: getById(id)
DupGetById(j) ==
  /\ jobs[j].pc = "getById"
  /\ isDuplicatingRef' = [isDuplicatingRef EXCEPT ![jobs[j].tab] = TRUE]
  /\ jobs' = IF RunExists(runs, jobs[j].source)
             THEN [jobs EXCEPT ![j].pc = "nameExists"]
             ELSE [jobs EXCEPT ![j].pc = "cooldown", ![j].res = "NotFound"]
  /\ UNCHANGED <<runs, counter>>
  /\ UNCHANGED dupFrame

\* duplicate: nameExists(newName), then createWithGeneratedId begins
DupNameExists(j) ==
  /\ jobs[j].pc = "nameExists"
  /\ jobs' = IF nameExists(runs, jobs[j].name)
             THEN [jobs EXCEPT ![j].pc = "cooldown", ![j].res = "NameExists"]
             ELSE [jobs EXCEPT ![j].pc = "seed", ![j].outer = 0]
  /\ UNCHANGED <<runs, counter, isDuplicatingRef>>
  /\ UNCHANGED dupFrame

\* create: getDoc of the candidate id; 'already exists' sends
\* createWithGeneratedId to its next attempt
DupCreateCheck(j) ==
  /\ jobs[j].pc = "createCheck"
  /\ jobs' =
       IF ~RunExists(runs, jobs[j].ret)
       THEN [jobs EXCEPT ![j].pc = "createSet"]
       ELSE IF jobs[j].outer + 1 < MAX_ID_ATTEMPTS
       THEN [jobs EXCEPT ![j].outer = @ + 1, ![j].pc = "seed"]
       ELSE [jobs EXCEPT ![j].outer = @ + 1, ![j].pc = "cooldown",
                         ![j].res = "CreateExhausted"]
  /\ UNCHANGED <<runs, counter, isDuplicatingRef>>
  /\ UNCHANGED dupFrame

\* the locals of generateTestRunId and createWithGeneratedId are gone when
\* createWithGeneratedId has returned
WithoutIdLocals(job) ==
  [job EXCEPT !.seedValue = 0, !.attempt = 0, !.snap = NoCounterDoc, !.next = 0,
              !.tries = 0, !.outer = 0]

\* create: setDoc of the run document; duplicate returns its id and
\* confirmDuplicate calls acquireTestRunLock(newTestRunId, {lockedBy:
\* user.email, ...}), whose transaction is then under way
DupCreateSet(j) ==
  /\ jobs[j].pc = "createSet"
  /\ NextSlot
  /\ runs' = WithRun(runs, jobs[j].ret, jobs[j].name)
  /\ jobs' = [jobs EXCEPT ![j] =
       [WithoutIdLocals(jobs[j]) EXCEPT !.newId = jobs[j].ret, !.pc = "lockWait"]]
  /\ calls' = SetCall(JobCallId(j, 1),
       [AcquireCall(JobCallId(j, 1), jobs[j].tab, jobs[j].ret, j) EXCEPT !.pc = "txBody"])
  /\ UNCHANGED <<now, locks, localLockTokens, execs>>
  /\ UNCHANGED <<counter, isDuplicatingRef>>

(* --------------------------- confirmDuplicate -------------------------- *)

\* the acquire is over: its error ends the invocation with no lock id to
\* release; else getByTestRunId(duplicateSourceId) and the filter
DupAcquired(j) ==
  /\ jobs[j].pc = "lockWait"
  /\ \E c \in CallsOf(j, "acquire") :
       /\ calls[c].pc = "done"
       /\ jobs' =
            IF calls[c].res = "ok"
            THEN [jobs EXCEPT ![j].lockId = calls[c].ret,
                              ![j].list = uniqueExecutions(getByTestRunId(execs, jobs[j].source)),
                              ![j].pc = "creates"]
            ELSE [jobs EXCEPT ![j].pc = "cooldown", ![j].res = calls[c].res]
       /\ calls' = WithoutCalls(calls, {c})
  /\ UNCHANGED <<now, locks, localLockTokens, execs>>
  /\ UNCHANGED <<runs, counter, isDuplicatingRef>>

\* Promise.all(uniqueExecutions.map(... create ...)): every create is under
\* way at once; this is the first store access of the next one
DupIssueCreate(j) ==
  /\ jobs[j].issued < Len(jobs[j].list)
  /\ NextSlot
  /\ LET execution == jobs[j].list[jobs[j].issued + 1]
     IN calls' = SetCall(JobCallId(j, jobs[j].issued + 3),
          CreateCall(jobs[j].tab, jobs[j].newId, execution.testCaseId,
                     [actualResult |-> "", status |-> "Not Run", testedBy |-> "",
                      order |-> execution.order], j))
  /\ jobs' = [jobs EXCEPT ![j].issued = @ + 1]
  /\ UNCHANGED <<now, locks, localLockTokens, execs>>
  /\ UNCHANGED <<runs, counter, isDuplicatingRef>>

\* a finally block that issues no release
DupFinally_NoRelease(j, res) ==
  /\ NextSlot
  /\ calls' = WithoutCalls(calls, Returned(j, "create"))
  /\ jobs' = [jobs EXCEPT ![j].pc = "releasing", ![j].res = res]
  /\ UNCHANGED <<now, locks, localLockTokens, execs>>
  /\ UNCHANGED <<runs, counter, isDuplicatingRef>>

\* the try block is left for the finally block, which calls
\* releaseTestRunLock(lockedRunId, lockId)
DupFinally(j, res) ==
  /\ NextSlot
  /\ calls' = PutCall(WithoutCalls(calls, Returned(j, "create")), JobCallId(j, 2),
                      ReleaseCall(jobs[j].tab, jobs[j].newId, jobs[j].lockId, j))
  /\ jobs' = [jobs EXCEPT ![j].pc = "releasing", ![j].res = res]
  /\ UNCHANGED <<now, locks, localLockTokens, execs>>
  /\ UNCHANGED <<runs, counter, isDuplicatingRef>>

\* Promise.all resolves when every create has returned: the modal is closed,
\* the list reloaded (reads only), the new run shown; then the finally block
DupCreatesDone(j) ==
  /\ jobs[j].pc = "creates"
  /\ jobs[j].issued = Len(jobs[j].list)
  /\ \A c \in CallsOf(j, "create") : calls[c].res = "ok"
  /\ DupFinally(j, "ok")

\* Promise.all rejects with the first error of a create, the other creates
\* still being under way; the catch block, then the finally block
DupCreatesFailed(j) ==
  /\ jobs[j].pc = "creates"
  /\ \E c \in CallsOf(j, "create") :
       /\ calls[c].pc = "done" /\ calls[c].res # "ok"
       /\ DupFinally(j, calls[c].res)

\* the end of the finally block: with the release over (or none to make),
\* setIsDuplicating(false) and the timer that sets isDuplicatingRef.current
\* = false fires
DupGuardReset(j) ==
  /\ \/ jobs[j].pc = "cooldown"
     \/ /\ jobs[j].pc = "releasing"
        /\ \E c \in CallsOf(j, "release") : calls[c].pc = "done"
  /\ isDuplicatingRef' = [isDuplicatingRef EXCEPT ![jobs[j].tab] = FALSE]
  /\ jobs' = [jobs EXCEPT ![j].pc = "done", ![j].lockId = NoToken]
  /\ calls' = WithoutCalls(calls, Returned(j, "release") \cup Returned(j, "create"))
  /\ UNCHANGED <<now, locks, localLockTokens, execs>>
  /\ UNCHANGED <<runs, counter>>

(* ------------------------------ handleDelete --------------------------- *)
\* handleDelete(id): testRunsService.delete(id), one deleteDoc of the run
\* document.  Runs are deleted until the last workflow of the behaviour has
\* started.
HandleDelete(id) ==
  /\ RunExists(runs, id)
  /\ NextJob
  /\ runs' = WithoutRun(runs, id)
  /\ UNCHANGED <<counter, jobs, isDuplicatingRef>>
  /\ UNCHANGED dupFrame

\* a step that reads the clock is about to be taken: the body of an acquire,
\* the ownership check of a create, the addDoc of a create
ClockReadPending ==
  \/ \E c \in DOMAIN calls :
       \/ calls[c].op = "acquire" /\ calls[c].pc = "txBody"
       \/ calls[c].op = "create" /\ calls[c].pc = "add"
  \/ \E j \in DOMAIN jobs : jobs[j].issued < Len(jobs[j].list)

\* time passes during a workflow; a tick commutes with every step that does
\* not read the clock, so it is taken only when such a step is pending.  The
\* clock advances until the last workflow of the behaviour has started.
TickInWorkflow == NextJob /\ ClockReadPending /\ Tick

(* -------------------- duplication and deletion of runs ----------------- *)
\* the runs present at the start, made with run ids TR001 and TR002
LegacyRuns == {RunDoc(R1, "Run A", 1), RunDoc(R2, "Run B", 2)}

\* what the record with a given id may be: the first one is TC001 of R1 at
\* order 1; the second one its duplicate at order 0, or TC002 of R1; the
\* third one a failed TC001 of R2; further ones TC002 of R1
DupContents(id) ==
  CASE id = 2 -> {ExecDoc(id, R1, "TC001", "Pass", 0, 1)}
    [] id = 4 -> {ExecDoc(id, R1, "TC001", "Pass", 0, 0),
                  ExecDoc(id, R1, "TC002", "Pass", 0, 0)}
    [] id = 6 -> {ExecDoc(id, R2, "TC001", "Fail", 0, 0)}
    [] OTHER -> {ExecDoc(id, R1, "TC002", "Pass", 0, 1)}

\* the collections that hold the first n old records, n = 0, 1, ...
DupCollections ==
  UNION {{{f[id] : id \in DOMAIN f} :
            f \in {g \in [{i \in LegacyExecIds : i <= 2 * n} -> UNION {DupContents(i) : i \in LegacyExecIds}] :
                     \A i \in DOMAIN g : g[i] \in DupContents(i)}} :
         n \in 0..MaxLegacy}

\* runs and executions made before the counter document was introduced
InitDup ==
  /\ now = 1
  /\ locks = NoLocks
  /\ localLockTokens = NoTokens
  /\ execs \in DupCollections
  /\ calls = NoCalls
  /\ runs = LegacyRuns
  /\ counter = NoCounterDoc
  /\ jobs = <<>>
  /\ isDuplicatingRef = NoGuards

NextDup ==
  \* the names typed into the duplicate dialog: none, the name of a run in
  \* other letter case, a new name
  \/ \E tab \in Tabs, name \in {"", "run b", "Copy"} : StartDup(tab, R1, name)
  \/ \E j \in DOMAIN jobs : DupGetById(j)
  \/ \E j \in DOMAIN jobs : DupNameExists(j)
  \/ \E j \in DOMAIN jobs : GenSeed(j)
  \/ \E j \in DOMAIN jobs : GenTxBody(j)
  \/ \E j \in DOMAIN jobs : GenTxCommit(j)
  \/ \E j \in DOMAIN jobs : GenProbe(j)
  \/ \E j \in DOMAIN jobs : DupCreateCheck(j)
  \/ \E j \in DOMAIN jobs : DupCreateSet(j)
  \/ \E c \in DOMAIN calls : AcquireBody(c)
  \/ \E c \in DOMAIN calls : AcquireCommit(c)
  \/ \E j \in DOMAIN jobs : DupAcquired(j)
  \/ \E j \in DOMAIN jobs : DupIssueCreate(j)
  \/ \E c \in DOMAIN calls : CreateAssertDelete(c)
  \/ \E c \in DOMAIN calls : CreateExists(c)
  \/ \E c \in DOMAIN calls : CreateLookup(c)
  \/ \E c \in DOMAIN calls : CreateAdd(c)
  \/ \E j \in DOMAIN jobs : DupCreatesDone(j)
  \/ \E j \in DOMAIN jobs : DupCreatesFailed(j)
  \/ \E c \in DOMAIN calls : ReleaseBody(c)
  \/ \E c \in DOMAIN calls : ReleaseCommit(c)
  \/ \E j \in DOMAIN jobs : DupGuardReset(j)
  \/ \E r \in LegacyRuns : HandleDelete(r.id)
  \/ TickInWorkflow

SpecDup == InitDup /\ [][NextDup]_vars

(* ------------------- repeated creates, one call at a time -------------- *)
\* the next call is issued when every call before it has returned
OneAtATime == \A c \in DOMAIN calls : calls[c].pc = "done"

StartCreateWith(tab, testCaseId, status) ==
  /\ HarnessSlot
  /\ OneAtATime
  /\ FirstCaller(tab)
  /\ FirstCase(testCaseId)
  /\ calls' = SetCall(NextCallId,
       CreateCall(tab, R1, testCaseId,
                  [actualResult |-> "", status |-> status, testedBy |-> UserOf(tab),
                   order |-> NextCallId], 0))
  /\ UNCHANGED <<now, locks, localLockTokens, execs>>
  /\ UNCHANGED serviceFrame

\* records of R1 with any case and one of two orders, all 'Fail'
CreateContents == {ExecDoc(0, R1, k, "Fail", 0, o) : k \in Cases, o \in {0, 1}}

\* the status passed to create differs from call to call, as the order does
NextCreate ==
  \/ \E tab \in Tabs : OneAtATime /\ StartAcquire(tab)
  \/ \E c \in DOMAIN calls : AcquireCommit(c)
  \/ \E tab \in Tabs, k \in Cases : StartCreateWith(tab, k, IF NextCallId % 2 = 0 THEN "Not Run" ELSE "Pass")
  \/ \E c \in DOMAIN calls : CreateExists(c)
  \/ \E c \in DOMAIN calls : CreateLookup(c)
  \/ \E c \in DOMAIN calls : CreateAdd(c)

SpecCreate == InitAdmin(CreateContents) /\ [][NextCreate]_vars

(* ------------------------- TestRunForm.handleSubmit -------------------- *)
\* an update that writes the fields into every document of the collection
WithUpdate_All(es, id, updates) ==
  {[f \in DOMAIN e |-> IF f \in DOMAIN updates THEN updates[f] ELSE e[f]] : e \in es}

\* updateDoc(docRef, updates) of an execution: the fields of updates replace
\* those of the document, the other fields stay
WithUpdate(es, id, updates) ==
  {IF e.id = id
   THEN [f \in DOMAIN e |-> IF f \in DOMAIN updates THEN updates[f] ELSE e[f]]
   ELSE e : e \in es}

\* the filter of handleSubmit: the first occurrence of every selected case
RECURSIVE uniqueSelectedTestCases(_)
uniqueSelectedTestCases(selectedTestCases) ==
  IF selectedTestCases = <<>> THEN <<>>
  ELSE LET n == Len(selectedTestCases)
           front == SubSeq(selectedTestCases, 1, n - 1)
       IN IF \E i \in 1..(n - 1) : selectedTestCases[i] = selectedTestCases[n]
          THEN uniqueSelectedTestCases(front)
          ELSE Append(uniqueSelectedTestCases(front), selectedTestCases[n])

\* handleSubmit of a signed-in user, with id the run of the edit page or no
\* id on the page of a new run: an empty selection is refused; the edit
\* branch begins with testRunsService.update, the other one with
\* generateTestRunId.  No step of the handler acquires a lock.
StartForm(tab, id, selectedTestCases) ==
  /\ NextJob
  /\ jobs = <<>> => tab = "tabA"
  /\ LET base == [NoJob EXCEPT !.kind = "form", !.tab = tab, !.source = id,
                               !.newId = id, !.name = "Run C",
                               !.selected = uniqueSelectedTestCases(selectedTestCases)]
     IN jobs' = Append(jobs,
          IF selectedTestCases = <<>>
          THEN [base EXCEPT !.pc = "done", !.res = "NoSelection"]
          ELSE IF id # NoRunId
          THEN [base EXCEPT !.pc = "editUpdate"]
          ELSE [base EXCEPT !.pc = "seed"])
  /\ UNCHANGED <<runs, counter, isDuplicatingRef>>
  /\ UNCHANGED dupFrame

\* the new run: testRunsService.create, first getDoc of the generated id
\* ('already exists' goes to the catch block), then setDoc
FormCreate(j) ==
  /\ jobs[j].pc \in {"formCheck", "formSet"}
  /\ IF jobs[j].pc = "formCheck"
     THEN /\ jobs' = IF RunExists(runs, jobs[j].ret)
                     THEN [jobs EXCEPT ![j].pc = "done", ![j].res = "AlreadyExists"]
                     ELSE [jobs EXCEPT ![j].pc = "formSet"]
          /\ UNCHANGED runs
     ELSE /\ runs' = WithRun(runs, jobs[j].ret, jobs[j].name)
          /\ jobs' = [jobs EXCEPT ![j] =
               [WithoutIdLocals(jobs[j]) EXCEPT !.newId = jobs[j].ret,
                                                !.pc = "formCreates"]]
  /\ UNCHANGED <<counter, isDuplicatingRef>>
  /\ UNCHANGED dupFrame

\* the edited run: testRunsService.update(id, formData), an updateDoc that
\* fails when the run document is gone (the form data are those of the run);
\* then existingExecutions = getByTestRunId(id)
FormEditLoad(j) ==
  /\ jobs[j].pc \in {"editUpdate", "editList"}
  /\ jobs' =
       IF jobs[j].pc = "editList"
       THEN [jobs EXCEPT ![j].list = getByTestRunId(execs, jobs[j].source),
                         ![j].issued = 0, ![j].pc = "editDelete"]
       ELSE IF RunExists(runs, jobs[j].source)
       THEN [jobs EXCEPT ![j].pc = "editList"]
       ELSE [jobs EXCEPT ![j].pc = "done", ![j].res = "NotFound"]
  /\ UNCHANGED <<runs, counter, isDuplicatingRef>>
  /\ UNCHANGED dupFrame

\* one turn of the loop over existingExecutions: delete(execution.id) when
\* its case is not selected any more
FormEditDelete(j) ==
  /\ jobs[j].pc = "editDelete"
  /\ IF jobs[j].issued = Len(jobs[j].list)
     THEN /\ jobs' = [jobs EXCEPT ![j].issued = 0, ![j].pc = "editOrder"]
          /\ UNCHANGED execs
     ELSE LET execution == jobs[j].list[jobs[j].issued + 1]
              selectedTestCaseIds ==
                {jobs[j].selected[k] : k \in 1..Len(jobs[j].selected)}
          IN /\ execs' = IF execution.testCaseId \in selectedTestCaseIds
                         THEN execs ELSE WithoutExec(execs, execution.id)
             /\ jobs' = [jobs EXCEPT ![j].issued = @ + 1]
  /\ UNCHANGED <<now, locks, localLockTokens, calls>>
  /\ UNCHANGED <<runs, counter, isDuplicatingRef>>

\* one turn i of the loop over the selection: update(execution.id, {order:
\* i}) of the first of existingExecutions with that case; updateDoc fails
\* when the document is gone
FormEditOrder(j) ==
  /\ jobs[j].pc = "editOrder"
  /\ IF jobs[j].issued = Len(jobs[j].selected)
     THEN /\ jobs' = [jobs EXCEPT ![j].issued = 0, ![j].pc = "formCreates"]
          /\ UNCHANGED execs
     ELSE LET i == jobs[j].issued
              found == {k \in 1..Len(jobs[j].list) :
                          jobs[j].list[k].testCaseId = jobs[j].selected[i + 1]}
              execution == jobs[j].list[CHOOSE k \in found : \A m \in found : k <= m]
          IN IF found = {}
             THEN /\ jobs' = [jobs EXCEPT ![j].issued = @ + 1]
                  /\ UNCHANGED execs
             ELSE IF \E e \in execs : e.id = execution.id
             THEN /\ execs' = WithUpdate(execs, execution.id, [order |-> i])
                  /\ jobs' = [jobs EXCEPT ![j].issued = @ + 1]
             ELSE /\ jobs' = [jobs EXCEPT ![j].pc = "done", ![j].res = "NotFound"]
                  /\ UNCHANGED execs
  /\ UNCHANGED <<now, locks, localLockTokens, calls>>
  /\ UNCHANGED <<runs, counter, isDuplicatingRef>>

\* the loop of creates, one awaited after the other: the error of a create
\* goes to the catch block; else the next selected case (on the edit page:
\* the next one that had no execution) gets create({testRunId, testCaseId,
\* status: 'Not Run', order: i}), whose ownership check is its first store
\* access; after the last one the form navigates away
FormCreates(j) ==
  /\ jobs[j].pc = "formCreates"
  /\ \A c \in CallsOf(j, "create") : calls[c].pc = "done"
  /\ LET i == jobs[j].issued
         rest == WithoutCalls(calls, CallsOf(j, "create"))
         existingTestCaseIds ==
           {jobs[j].list[k].testCaseId : k \in 1..Len(jobs[j].list)}
     IN IF \E c \in CallsOf(j, "create") : calls[c].res # "ok"
        THEN /\ jobs' = [jobs EXCEPT ![j].pc = "done",
                           ![j].res = calls[CHOOSE c \in CallsOf(j, "create") : TRUE].res]
             /\ calls' = rest
        ELSE IF i = Len(jobs[j].selected)
        THEN /\ jobs' = [jobs EXCEPT ![j].pc = "done", ![j].res = "ok"]
             /\ calls' = rest
        ELSE IF jobs[j].selected[i + 1] \in existingTestCaseIds
        THEN /\ jobs' = [jobs EXCEPT ![j].issued = @ + 1]
             /\ calls' = rest
        ELSE /\ jobs' = [jobs EXCEPT ![j].issued = @ + 1]
             /\ calls' = PutCall(rest, JobCallId(j, i + 3),
                  CreateCall(jobs[j].tab, jobs[j].newId, jobs[j].selected[i + 1],
                             [actualResult |-> "", status |-> "Not Run",
                              testedBy |-> "", order |-> i], j))
  /\ UNCHANGED <<now, locks, localLockTokens, execs>>
  /\ UNCHANGED <<runs, counter, isDuplicatingRef>>

(* ------------------------ submissions of the run form ------------------ *)
\* the form is submitted for a new run or for the old run TR001, in tabs
\* none of which is duplicating a run: no lock document exists
NextForm ==
  \* the selections submitted: none, one case, two cases, one case twice
  \/ \E tab \in Tabs, id \in {NoRunId, R1} :
       \E s \in {<<>>, <<"TC001">>, <<"TC002", "TC001">>, <<"TC001", "TC001">>} :
         StartForm(tab, id, s)
  \/ \E j \in DOMAIN jobs : GenSeed(j)
  \/ \E j \in DOMAIN jobs : GenTxBody(j)
  \/ \E j \in DOMAIN jobs : GenTxCommit(j)
  \/ \E j \in DOMAIN jobs : GenProbe(j)
  \/ \E j \in DOMAIN jobs : FormCreate(j)
  \/ \E j \in DOMAIN jobs : FormEditLoad(j)
  \/ \E j \in DOMAIN jobs : FormEditDelete(j)
  \/ \E j \in DOMAIN jobs : FormEditOrder(j)
  \/ \E j \in DOMAIN jobs : FormCreates(j)

SpecForm == InitDup /\ [][NextForm]_vars

(* ------------------ duplication under a fair scheduler ----------------- *)
\* the old records whose source run TR001 has one case: every duplication
\* adds one record at most, and the store has a fresh document id for it
InitRelease ==
  /\ now = 1
  /\ locks = NoLocks
  /\ localLockTokens = NoTokens
  /\ execs \in
       {{},
        {ExecDoc(2, R1, "TC001", "Pass", 0, 1)},
        {ExecDoc(2, R1, "TC001", "Pass", 0, 1), ExecDoc(4, R1, "TC001", "Pass", 0, 0)},
        {ExecDoc(2, R1, "TC001", "Pass", 0, 1), ExecDoc(4, R1, "TC001", "Pass", 0, 0),
         ExecDoc(6, R2, "TC001", "Fail", 0, 0)}}
  /\ calls = NoCalls
  /\ runs = LegacyRuns
  /\ counter = NoCounterDoc
  /\ jobs = <<>>
  /\ isDuplicatingRef = NoGuards

\* a step of the creation phase of a duplication: the store answers every
\* request of a create, and the event loop of the tab runs confirmDuplicate
\* on when Promise.all has settled.  Nothing is assumed of the steps of the
\* user, of the clock, or of a workflow that holds no lock yet.
CreationStep ==
  \/ \E j \in DOMAIN jobs : DupIssueCreate(j)
  \/ \E c \in DOMAIN calls : CreateAssertDelete(c)
  \/ \E c \in DOMAIN calls : CreateExists(c)
  \/ \E c \in DOMAIN calls : CreateLookup(c)
  \/ \E c \in DOMAIN calls : CreateAdd(c)
  \/ \E j \in DOMAIN jobs : DupCreatesDone(j)
  \/ \E j \in DOMAIN jobs : DupCreatesFailed(j)

SpecRelease == InitRelease /\ [][NextDup]_vars /\ WF_vars(CreationStep)

(* ------------------- testCaseExecutionsService.update ------------------ *)
\* update(id, updates): one updateDoc on the execution document, which fails
\* when there is no such document; the call record keeps the document id in
\* ret and the fields in args
update(tab, id, updates) ==
  /\ HarnessSlot
  /\ OneAtATime
  /\ FirstCaller(tab)
  /\ LET found == \E e \in execs : e.id = id
     IN /\ execs' = IF found THEN WithUpdate(execs, id, updates) ELSE execs
        /\ calls' = SetCall(NextCallId,
             [NoCall EXCEPT !.op = "update", !.tab = tab, !.pc = "done",
                            !.ret = id, !.args = updates,
                            !.res = IF found THEN "ok" ELSE "NotFound"])
  /\ UNCHANGED <<now, locks, localLockTokens>>
  /\ UNCHANGED serviceFrame

\* results are recorded on old records of TR001 while tabs acquire its lock
\* and the lock expires
NextUpdate ==
  \/ \E tab \in Tabs : OneAtATime /\ StartAcquire(tab)
  \/ \E c \in DOMAIN calls : AcquireCommit(c)
  \* the fields the pages pass: handleSubmit of the execution page records a
  \* result, handleSubmit of the run form sets the order
  \/ \E tab \in Tabs, id \in {2, 4} :
       \E updates \in {[actualResult |-> "as expected", status |-> "Pass",
                         testedBy |-> UserOf(tab)],
                        [order |-> 2]} :
         update(tab, id, updates)
  \/ Tick

SpecUpdate == InitAdmin(CreateContents) /\ [][NextUpdate]_vars

(* ----------------------------- getByTestCaseId ------------------------- *)
getByTestCaseId(es, testCaseId) ==
  LET docs == QueryDocs({e \in es : e.testCaseId = testCaseId})
  IN SortExecutions([i \in 1..Len(docs) |-> ExecView(docs[i])])

\* a call getByTestRunId(testRunId): one query, the sorted array is returned
StartGetByTestRunId(testRunId) ==
  /\ AdminSlot
  /\ calls' = SetCall(NextCallId,
       [NoCall EXCEPT !.op = "getByTestRunId", !.tab = "tabA", !.run = testRunId,
                      !.pc = "done", !.res = "ok",
                      !.list = getByTestRunId(execs, testRunId)])
  /\ UNCHANGED <<now, locks, localLockTokens, execs>>
  /\ UNCHANGED serviceFrame

\* a call getByTestCaseId(testCaseId)
StartGetByTestCaseId(testCaseId) ==
  /\ AdminSlot
  /\ calls' = SetCall(NextCallId,
       [NoCall EXCEPT !.op = "getByTestCaseId", !.tab = "tabA", !.case = testCaseId,
                      !.pc = "done", !.res = "ok",
                      !.list = getByTestCaseId(execs, testCaseId)])
  /\ UNCHANGED <<now, locks, localLockTokens, execs>>
  /\ UNCHANGED serviceFrame

\* listings of the old records, by run and by case
NextList ==
  \/ \E testRunId \in {R1, R2} : StartGetByTestRunId(testRunId)
  \/ \E testCaseId \in Cases : StartGetByTestCaseId(testCaseId)

SpecList == InitAdmin(CleanupContents) /\ [][NextList]_vars

(* -------------------------- cleanupAllDuplicates ----------------------- *)
\* executionsByTestRun: the Map from testRunId to the executions of the
\* snapshot, as the sequence of its entries in insertion order (a run comes
\* where its first document is listed)
executionsByTestRun(docs) ==
  LET firsts == {i \in 1..Len(docs) :
                   \A j \in 1..(i - 1) : docs[j].testRunId # docs[i].testRunId}
      key(k) == docs[CHOOSE i \in firsts : Cardinality({j \in firsts : j < i}) = k - 1].testRunId
      OfRun(testRunId) == LET Is(e) == e.testRunId = testRunId IN SelectSeq(docs, Is)
  IN [k \in 1..Cardinality(firsts) |->
        [testRunId |-> key(k), executions |-> OfRun(key(k))]]

\* executions.sort((a, b) => a.order - b.order): a stable sort by order alone
RECURSIVE SortByOrder(_)
SortByOrder(seq) ==
  IF seq = <<>> THEN <<>>
  ELSE LET sorted == SortByOrder(SubSeq(seq, 1, Len(seq) - 1))
           x == seq[Len(seq)]
           after == {i \in 1..Len(sorted) : sorted[i].order - x.order > 0}
           pos == IF after = {} THEN Len(sorted) + 1
                  ELSE CHOOSE i \in after : \A j \in after : i <= j
       IN SubSeq(sorted, 1, pos - 1) \o <<x>> \o SubSeq(sorted, pos, Len(sorted))

\* the loop over the entries of executionsByTestRun: the ids deleted, in the
\* order of their deletion, and the results pushed
RECURSIVE ProcessTestRuns(_)
ProcessTestRuns(entries) ==
  IF entries = <<>> THEN [todo |-> <<>>, results |-> <<>>]
  ELSE LET testRunId == Head(entries).testRunId
           executions == SortByOrder(Head(entries).executions)
           dups == duplicatesToDelete(executions)
           rest == ProcessTestRuns(Tail(entries))
       IN [todo |-> dups \o rest.todo,
           results |->
             IF Len(dups) > 0
             THEN <<[testRunId |-> testRunId, duplicatesRemoved |-> Len(dups)]>>
                    \o rest.results
             ELSE rest.results]

\* a call cleanupAllDuplicates() after getDocs of the whole collection and
\* the grouping; the deletes follow one by one (CleanupDelete), and the call
\* returns results after the last one
StartCleanupAll ==
  /\ AdminSlot
  /\ LET found == QueryDocs(execs)
         docs == [i \in 1..Len(found) |-> ExecView(found[i])]
         all == ProcessTestRuns(executionsByTestRun(docs))
     IN calls' = SetCall(NextCallId,
          [NoCall EXCEPT !.op = "cleanupAll", !.tab = "tabA", !.list = docs,
                         !.todo = all.todo, !.results = all.results,
                         !.pc = IF all.todo = <<>> THEN "done" ELSE "delete",
                         !.res = IF all.todo = <<>> THEN "ok" ELSE ""])
  /\ UNCHANGED <<now, locks, localLockTokens, execs>>
  /\ UNCHANGED serviceFrame

NextCleanupAll ==
  \/ StartCleanupAll
  \/ \E c \in DOMAIN calls : CleanupDelete(c)

SpecCleanupAll == InitAdmin(CleanupContents) /\ [][NextCleanupAll]_vars

(* ------------------ creation next to an earlier client ----------------- *)
\* a client that still runs the earlier version of the service creates a
\* run: its generateTestRunId takes the number after that of the most
\* recently created run (TR001 for an empty collection), its create is a
\* setDoc with no check.  Its creations are followed when they matter to
\* a duplication: under the id a createWithGeneratedId call has generated and
\* not yet written
LegacyCreate ==
  /\ getSeedRunNumber(runs) + 1 <= MaxRunNo
  /\ \E j \in DOMAIN jobs :
       /\ jobs[j].pc \in {"createCheck", "createSet"}
       /\ jobs[j].ret = formatTestRunId(getSeedRunNumber(runs) + 1)
  /\ runs' = WithRun(runs, formatTestRunId(getSeedRunNumber(runs) + 1), "Other")
  /\ UNCHANGED <<counter, jobs, isDuplicatingRef>>
  /\ UNCHANGED dupFrame

\* the runs made before the counter document was introduced, no executions
InitCollide == InitDup /\ execs = {}

\* duplications up to the return of createWithGeneratedId, while such a
\* client creates runs
NextCollide ==
  \/ \E tab \in Tabs : StartDup(tab, R1, "Copy")
  \/ \E j \in DOMAIN jobs : DupGetById(j)
  \/ \E j \in DOMAIN jobs : DupNameExists(j)
  \/ \E j \in DOMAIN jobs : GenSeed(j)
  \/ \E j \in DOMAIN jobs : GenTxBody(j)
  \/ \E j \in DOMAIN jobs : GenTxCommit(j)
  \/ \E j \in DOMAIN jobs : GenProbe(j)
  \/ \E j \in DOMAIN jobs : DupCreateCheck(j)
  \/ \E j \in DOMAIN jobs : DupCreateSet(j)
  \/ LegacyCreate

SpecCollide == InitCollide /\ [][NextCollide]_vars

(* ======================= claims on the service harness ================= *)
\* call c takes a step in this transition
Steps(c) == CallIn(calls', c) # Call(c)

\* the lock of R1 is unexpired and belongs to another tab than `tab`
LiveLockOfOther(tab) ==
  LockDoc(R1).exists /\ now < LockDoc(R1).expiresAt /\ LockDoc(R1).tabId # tab

\* `tab` holds the lock of R1: the document exists, is unexpired and carries
\* the tab's id and the lock id the tab recorded
HoldsLock(tab) ==
  /\ LockDoc(R1).exists
  /\ now < LockDoc(R1).expiresAt
  /\ LockDoc(R1).tabId = tab
  /\ LocalToken(tab, R1) # NoToken
  /\ LockDoc(R1).lockId = LocalToken(tab, R1)

CreatesReturned(k) ==
  {c \in CallIds : Call(c).op = "create" /\ Call(c).case = k /\ Call(c).res = "ok"}

\* C1: once create calls for the same (testRunId, testCaseId) have passed the
\* lock check and returned, exactly one execution record of that pair exists
\* and all of them returned the same id.
C1_AtMostOneExecutionPerPair ==
  \A k \in Cases :
    /\ \A c1, c2 \in CreatesReturned(k) : Call(c1).ret = Call(c2).ret
    /\ CreatesReturned(k) # {} => Cardinality(Matching(execs, R1, k)) = 1

\* C2: while another tab's lock on the run is unexpired, no step of an acquire
\* call changes the lock document or lets the call succeed; when the call
\* ends it raises the locked-by-another error and its lockOwner is the holder.
C2_LockMutualExclusion ==
  [][\A c \in CallIds :
       (Steps(c) /\ CallIn(calls', c).op = "acquire" /\ LiveLockOfOther(CallIn(calls', c).tab))
         => /\ locks' = locks
            /\ CallIn(calls', c).res # "ok"
            /\ CallIn(calls', c).pc = "done"
                 => /\ CallIn(calls', c).res = "LockedByOther"
                    /\ CallIn(calls', c).owner = UserOf(LockDoc(R1).tabId)]_vars

\* two acquires raced: the loser's first transaction body saw no live lock of
\* another tab, its commit was rejected, and its second body raised the error
\* naming the holder
C2_Witness ==
  \E c \in CallIds :
    /\ Call(c).op = "acquire"
    /\ Call(c).res = "LockedByOther"
    /\ Call(c).tries = 2
    /\ LiveLockOfOther(Call(c).tab)
    /\ Call(c).owner = UserOf(LockDoc(R1).tabId)

\* `tab` acquired the lock and never released it, it still records a lock id,
\* and the lock document now belongs to another tab: the lock of `tab` expired
\* and the other tab took it over
TakenOverAfterExpiry(tab) ==
  /\ \E a \in CallIds :
       /\ Call(a).op = "acquire" /\ Call(a).tab = tab /\ Call(a).res = "ok"
       /\ Call(a).ret = LocalToken(tab, R1)
  /\ \A d \in CallIds : ~(Call(d).op = "release" /\ Call(d).tab = tab)
  /\ LockDoc(R1).exists
  /\ LockDoc(R1).tabId # tab

\* call c is issued in this transition and it is a create
IssuesCreate(c) == Call(c).op = "none" /\ CallIn(calls', c).op = "create"

\* C3 as stated: after a different tab acquired the expired lock, the
\* ownership check of the original tab raises the lock-expired error.
C3_ExpiredAfterTakeover ==
  [][\A c \in CallIds :
       (IssuesCreate(c) /\ TakenOverAfterExpiry(CallIn(calls', c).tab))
         => CallIn(calls', c).pc = "assertDelete"]_vars

\* C3 amended: an expired lock of another tab never makes an acquire raise,
\* and the acquire succeeds when its commit is accepted; the ownership check
\* of the original tab raises lock-expired when the document it reads is
\* expired, and locked-by-another-tab when it reads the unexpired lock of the
\* tab that took over.
C3_ExpiryRecovery ==
  [][\A c \in CallIds :
       /\ (/\ Steps(c) /\ CallIn(calls', c).op = "acquire" /\ Call(c).pc # "txCommit"
           /\ LockDoc(R1).exists /\ LockDoc(R1).expiresAt <= now
           /\ LockDoc(R1).tabId # CallIn(calls', c).tab)
            => /\ CallIn(calls', c).pc = "txCommit"
               /\ CallIn(calls', c).wr.lockId = CallIn(calls', c).token
               /\ CallIn(calls', c).wr.expiresAt = now + LOCK_TTL_MS
       /\ (Call(c).op = "acquire" /\ Call(c).pc = "txCommit" /\ Steps(c)
           /\ LockDoc(R1) = Call(c).snap)
            => /\ CallIn(calls', c).res = "ok"
               /\ LockIn(locks', R1) = Call(c).wr
       /\ (IssuesCreate(c) /\ LockDoc(R1).exists /\ LockDoc(R1).expiresAt <= now)
            => CallIn(calls', c).pc = "assertDelete"
       /\ (Call(c).pc = "assertDelete" /\ Steps(c))
            => CallIn(calls', c).res = "Expired"
       /\ (IssuesCreate(c) /\ TakenOverAfterExpiry(CallIn(calls', c).tab)
           /\ now < LockDoc(R1).expiresAt)
            => CallIn(calls', c).res = "LockedByOther"]_vars

\* the original tab's ownership check ran after the takeover and was refused
\* with locked-by-another-tab
C3_Witness ==
  \E c \in CallIds :
    /\ Call(c).op = "create"
    /\ Call(c).res = "LockedByOther"
    /\ TakenOverAfterExpiry(Call(c).tab)
    /\ LiveLockOfOther(Call(c).tab)
    /\ \E b \in CallIds :
         /\ Call(b).op = "acquire" /\ Call(b).res = "ok"
         /\ Call(b).ret = LockDoc(R1).lockId
         /\ b < c

\* C4: whenever create inserts an execution record for a run, the inserting
\* tab holds that run's lock at the moment of the insert.
C4_InsertOnlyUnderLock ==
  [][\A c \in CallIds :
       (Call(c).pc = "add" /\ Steps(c)) => HoldsLock(Call(c).tab)]_vars

(* ========================= claims on id allocation ===================== *)
\* the counter values the allocations have received so far
Received == UNION {{Job(j).got[i] : i \in 1..Len(Job(j).got)} : j \in JobIds}

\* the ids generateTestRunId has returned so far
ReturnedIds == {Job(j).ret : j \in {i \in JobIds : Job(i).res = "ok"}}

\* job j's counter transaction commits in this transition
Commits(j) == JobIn(jobs', j).got # Job(j).got

\* job j's generateTestRunId returns an id in this transition
Returns(j) == Job(j).res = "" /\ JobIn(jobs', j).res = "ok"

\* C5: every counter value a commit hands out is greater than every value
\* handed out before, to any call; a returned id carries the number its call
\* received last and was returned by no earlier call.
C5_IdsUniqueAndIncreasing ==
  [][\A j \in JobIds :
       /\ Commits(j) =>
            /\ counter'.current = JobIn(jobs', j).got[Len(JobIn(jobs', j).got)]
            /\ \A v \in Received : v < counter'.current
       /\ Returns(j) =>
            /\ extractRunNumber(JobIn(jobs', j).ret) = Job(j).got[Len(Job(j).got)]
            /\ JobIn(jobs', j).ret \notin ReturnedIds
            /\ \A id \in ReturnedIds :
                 extractRunNumber(id) # extractRunNumber(JobIn(jobs', j).ret)]_vars

\* two allocations raced on a counter seeded from pre-existing runs: one
\* commit was rejected and re-run, and both calls returned
C5_Witness ==
  /\ runs # {}
  /\ \E j \in JobIds : Job(j).res = "ok" /\ Job(j).tries >= 2
  /\ \A j \in JobIds : Job(j).res = "ok"
  /\ \E j \in JobIds : ~Job(j).snap.exists

\* the greatest number in the ids of a collection of runs
MaxSuffix(rs) ==
  IF rs = {} THEN 0
  ELSE CHOOSE m \in {extractRunNumber(r.id) : r \in rs} :
         \A r \in rs : extractRunNumber(r.id) <= m

\* the run with the greatest createdAt
MostRecentlyCreated(rs) == CHOOSE r \in rs : \A q \in rs : q.createdAt <= r.createdAt

\* job j's transaction created the counter document, and the call returned
FirstAllocation(j) ==
  /\ Job(j).res = "ok"
  /\ ~Job(j).snap.exists
  /\ Len(Job(j).got) = 1

\* C6 as stated: when the counter document does not exist, the first
\* generated id has the suffix max+1 over the ids present in testRuns.
C6_SeededFromMaximum ==
  \A j \in JobIds :
    FirstAllocation(j) => extractRunNumber(Job(j).ret) = MaxSuffix(runs) + 1

\* C6 amended: the seed is the number in the id of the most recently created
\* run (0 for an empty collection); a commit that creates the counter document
\* sets it to seed + 1; the id returned is the first candidate no run has.
C6_SeededFromLatest ==
  [][\A j \in JobIds :
       /\ (Job(j).pc = "seed" /\ JobIn(jobs', j).pc # "seed") =>
            JobIn(jobs', j).seedValue =
              IF runs = {} THEN 0 ELSE extractRunNumber(MostRecentlyCreated(runs).id)
       /\ (Commits(j) /\ ~counter.exists) =>
            counter'.current = Job(j).seedValue + 1
       /\ Returns(j) =>
            /\ JobIn(jobs', j).ret = formatTestRunId(Job(j).got[Len(Job(j).got)])
            /\ \A r \in runs : r.id # JobIn(jobs', j).ret
            /\ \A i \in 1..(Len(Job(j).got) - 1) :
                 \E r \in runs : r.id = formatTestRunId(Job(j).got[i])]_vars

\* the first id generated without a counter document is below the id of an
\* existing run: the older run TR005 and the newer run TR002 give TR003
C6_Witness ==
  \E j \in JobIds :
    /\ FirstAllocation(j)
    /\ Job(j).seedValue = 2
    /\ Job(j).ret = <<"T", "R", "0", "0", "3">>
    /\ MaxSuffix(runs) = 5

\* scenario C of the specification: only TR005 exists, no counter document,
\* and the first generated id is TR006
C6_ScenarioC ==
  \A j \in JobIds :
    (FirstAllocation(j) /\ {r.id : r \in runs} = {<<"T", "R", "0", "0", "5">>})
      => Job(j).ret = <<"T", "R", "0", "0", "6">>

(* ==================== claims on cleanup and statistics ================= *)
\* the records of a run in a collection
RecordsOf(es, testRunId) == {e \in es : e.testRunId = testRunId}

\* the elements of an array
Elems(seq) == {seq[i] : i \in 1..Len(seq)}

CasesOf(es) == {e.testCaseId : e \in es}

\* call c is a cleanupDuplicates call issued in this transition
IssuesCleanup(c) == Call(c).op = "none" /\ CallIn(calls', c).op = "cleanup"

\* call c is a cleanupDuplicates call that returns in this transition
CleanupReturns(c) ==
  /\ CallIn(calls', c).op = "cleanup"
  /\ Call(c).pc # "done"
  /\ CallIn(calls', c).pc = "done"

C9_CleanupIdempotent ==
  [][\A c \in CallIds :
       (/\ IssuesCleanup(c)
        /\ c > 1
        /\ Call(c - 1).op = "cleanup"
        /\ Call(c - 1).res = "ok"
        /\ Call(c - 1).run = CallIn(calls', c).run)
         => /\ CallIn(calls', c).todo = <<>>
            /\ CallIn(calls', c).pc = "done"
            /\ CallIn(calls', c).res = "ok"
            /\ CallIn(calls', c).ret = 0
            /\ execs' = execs]_vars

\* a first cleanup deleted records, a second one right after it returned 0
C9_Witness ==
  \E c \in DOMAIN calls :
    /\ c > 1
    /\ calls[c].op = "cleanup" /\ calls[c].res = "ok" /\ calls[c].ret = 0
    /\ calls[c - 1].op = "cleanup" /\ calls[c - 1].ret >= 1
    /\ calls[c - 1].run = calls[c].run

\* e is the record of its case that a listing of es shows first: lowest
\* order, then most recent executionDate, then lowest document id
FirstListed(e, es) ==
  /\ e \in es
  /\ \A f \in es :
       f.testCaseId = e.testCaseId =>
         \/ OrderOrZero(e.order) < OrderOrZero(f.order)
         \/ /\ OrderOrZero(e.order) = OrderOrZero(f.order)
            /\ \/ e.executionDate > f.executionDate
               \/ e.executionDate = f.executionDate /\ e.id <= f.id

\* the cases whose first-listed record has this status
CasesWithStatus(es, status) ==
  {k \in CasesOf(es) : \E e \in es : e.testCaseId = k /\ e.status = status /\ FirstListed(e, es)}

\* C10: getTestRunStats counts every case of the run once: total is the
\* number of distinct testCaseIds, every bucket counts the cases whose
\* first-listed record has its status, and the buckets add up to total.
C10_StatsCountCasesOnce ==
  [][\A c \in CallIds :
       (Call(c).op = "none" /\ CallIn(calls', c).op = "stats") =>
         LET st == CallIn(calls', c).stats
             recs == RecordsOf(execs, CallIn(calls', c).run)
         IN /\ st.total = Cardinality(CasesOf(recs))
            /\ st.passed = Cardinality(CasesWithStatus(recs, "Pass"))
            /\ st.failed = Cardinality(CasesWithStatus(recs, "Fail"))
            /\ st.blocked = Cardinality(CasesWithStatus(recs, "Blocked"))
            /\ st.skipped = Cardinality(CasesWithStatus(recs, "Skip"))
            /\ st.notRun = Cardinality(CasesWithStatus(recs, "Not Run"))
            /\ st.passed + st.failed + st.blocked + st.skipped + st.notRun = st.total
    ]_vars

\* statistics of a run with a Pass record and a Fail record of one case and a
\* record of another case: two cases counted, one of them failed
C10_Witness ==
  /\ Cardinality(DOMAIN calls) = 1
  /\ calls[1].op = "stats"
  /\ calls[1].stats.total = 2
  /\ calls[1].stats.failed = 1
  /\ calls[1].stats.passed = 0
  /\ \E a, b \in RecordsOf(execs, R1) :
       /\ a.testCaseId = b.testCaseId
       /\ a.status = "Pass" /\ b.status = "Fail"
  /\ Cardinality(RecordsOf(execs, R1)) = 3

(* ========================= claims on duplication ======================= *)
\* the confirmDuplicate invocation j reports success in this transition:
\* every create of Promise.all has returned an id
DupSucceeds(j) ==
  /\ Job(j).pc = "creates"
  /\ JobIn(jobs', j).pc = "releasing"
  /\ JobIn(jobs', j).res = "ok"

\* no other workflow has the new run of invocation j as its new run
AloneOnNewRun(j) ==
  \A k \in DOMAIN jobs : k # j => jobs[k].newId # jobs[j].newId

\* what a duplication leaves: the new run has exactly one record for every
\* distinct testCaseId of the source run and none for any other case; every
\* record has status 'Not Run', empty actualResult and testedBy, the order of
\* the first-listed source record of its case, and an id no source record has
DuplicationResult(j) ==
  LET source == RecordsOf(execs, jobs[j].source)
      new == RecordsOf(execs, jobs[j].newId)
  IN /\ CasesOf(new) = CasesOf(source)
     /\ \A k \in CasesOf(source) :
          Cardinality({e \in new : e.testCaseId = k}) = 1
     /\ \A e \in new :
          /\ e.status = "Not Run"
          /\ e.actualResult = ""
          /\ e.testedBy = ""
          /\ \A f \in source :
               (f.testCaseId = e.testCaseId /\ FirstListed(f, source))
                 => e.order = OrderOrZero(f.order)
          /\ \A f \in source : f.id # e.id

\* C7: when a duplication of run R succeeds and no other tab has touched the
\* new run, the new run has exactly one execution record for every distinct
\* testCaseId of R and none for any other case; every record has status
\* 'Not Run', empty actualResult and testedBy, the order of the first-listed
\* record of R for its case, and an id no record of R has.
C7_DuplicationResult ==
  [][\A j \in DOMAIN jobs :
       (DupSucceeds(j) /\ AloneOnNewRun(j)) => DuplicationResult(j)]_vars

\* every record of the new run of invocation j was stored during this
\* behaviour: none was left behind by a deleted run with the same id
NoLeftOver(j) == \A e \in RecordsOf(execs, jobs[j].newId) : e.id \in ExecIds

\* the same result for the duplications whose new run has no left-over record
C7_OnFreshRun ==
  [][\A j \in DOMAIN jobs :
       (DupSucceeds(j) /\ AloneOnNewRun(j) /\ NoLeftOver(j)) => DuplicationResult(j)]_vars

\* a duplication succeeded on a source with two records of one case
C7_FreshRunWitness ==
  \E j \in DOMAIN jobs :
    /\ jobs[j].res = "ok"
    /\ NoLeftOver(j)
    /\ Cardinality(RecordsOf(execs, jobs[j].source)) = 2
    /\ Cardinality(CasesOf(RecordsOf(execs, jobs[j].source))) = 1
    /\ Cardinality(RecordsOf(execs, jobs[j].newId)) = 1

(* ========================= claims on repeated creates ================== *)
\* the creates of a pair that have returned an id
ReturnedFor(testRunId, testCaseId) ==
  {d \in DOMAIN calls :
     /\ calls[d].op = "create" /\ calls[d].res = "ok"
     /\ calls[d].run = testRunId /\ calls[d].case = testCaseId}

\* C11: a step of a create whose pair has a record already changes no
\* execution record; when the call returns, it returns the id of a record of
\* the pair, the same id as every create of the pair that returned before.
C11_IdempotentCreate ==
  [][\A c \in CallIds :
       LET call == CallIn(calls', c)
           pair == Matching(execs, call.run, call.case)
       IN (call.op = "create" /\ Steps(c) /\ Call(c).op = "create" /\ pair # {}) =>
            /\ execs' = execs
            /\ call.pc = "done" =>
                 /\ call.res = "ok"
                 /\ call.ret \in {e.id : e \in pair}
                 /\ \A d \in ReturnedFor(call.run, call.case) : calls[d].ret = call.ret
    ]_vars

\* a pair with two old records at order 0 and 1, status 'Fail'; two creates
\* of the lock holder with other values returned the same id and the two
\* records are all the pair has
C11_Witness ==
  /\ Cardinality(DOMAIN calls) = 3
  /\ calls[2].op = "create" /\ calls[3].op = "create"
  /\ calls[2].res = "ok" /\ calls[3].res = "ok"
  /\ calls[2].case = calls[3].case
  /\ calls[2].ret = calls[3].ret
  /\ calls[2].args.status # calls[3].args.status
  /\ Cardinality(Matching(execs, R1, calls[2].case)) = 2
  /\ \A e \in Matching(execs, R1, calls[2].case) : e.status = "Fail" /\ e.id \in LegacyExecIds

(* ========================= claims on the run form ====================== *)
\* a submission of the form that came to its end without a failure of the
\* store: a selection was made, the run document could be written, every
\* document to update was there
SubmissionEnds(j) ==
  /\ jobs[j].kind = "form" /\ jobs[j].pc # "done"
  /\ jobs'[j].pc = "done"
  /\ jobs'[j].res \notin {"NoSelection", "AlreadyExists", "NotFound", "AllocationError"}

\* C12: when the run form is submitted for a new run, or for an existing run
\* with added cases, with k distinct selected test cases and no store
\* failure, then at the end of the submission the run has exactly one
\* execution record per selected test case, with order equal to the case's
\* position 0..k-1 in the selection.
C12_ExecutionsFollowSubmission ==
  [][\A j \in DOMAIN jobs :
       SubmissionEnds(j) =>
         LET selected == jobs'[j].selected
             ofRun == {e \in execs' : e.testRunId = jobs'[j].newId}
         IN /\ \A e \in ofRun : \E i \in 1..Len(selected) : e.testCaseId = selected[i]
            /\ \A i \in 1..Len(selected) :
                 /\ Cardinality(Matching(execs', jobs'[j].newId, selected[i])) = 1
                 /\ \A e \in Matching(execs', jobs'[j].newId, selected[i]) :
                      e.order = i - 1
    ]_vars

(* ========================= claims on run deletion ====================== *)
\* C13: after a run is deleted through the application (handleDelete calling
\* testRunsService.delete), no execution record whose testRunId is that run
\* remains in the store.
C13_ExecutionsDeletedWithRun ==
  [][\A r \in runs :
       (RunExists(runs, r.id) /\ ~RunExists(runs', r.id)) =>
         \A e \in execs' : e.testRunId # r.id
    ]_vars

(* ==================== claims on the order of duplication =============== *)
\* invocation j writes the document of a run in this transition
WritesRun(j) ==
  /\ jobs[j].kind = "dup"
  /\ jobs'[j].newId # jobs[j].newId
  /\ RunExists(runs', jobs'[j].newId)

\* C14: in the duplication workflow the lock on the new run id is acquired
\* before the new run document is created (the invocation's tab holds the
\* lock of the run whose document it writes), so that when the acquisition
\* fails the workflow has written neither a run document nor any execution
\* record.
C14_LockBeforeRunDocument ==
  [][\A j \in DOMAIN jobs :
       /\ WritesRun(j) =>
            LET d == LockIn(locks, jobs'[j].newId)
            IN d.exists /\ d.tabId = jobs[j].tab
                 /\ d.lockId = LocalToken(jobs[j].tab, jobs'[j].newId)
       /\ (jobs[j].pc = "lockWait" /\ jobs'[j].pc = "cooldown") =>
            /\ ~RunExists(runs', jobs[j].newId)
            /\ \A e \in execs' : e.testRunId # jobs[j].newId
    ]_vars

(* ===================== claims on the release of the lock =============== *)
\* invocation j has acquired the lock on its new run
AcquiredLock(j) == Job(j).kind = "dup" /\ Job(j).pc = "creates"

\* invocation j has issued releaseTestRunLock(newTestRunId, lockId) with the
\* lock id its acquire returned
ReleaseIssued(j) ==
  /\ Job(j).pc = "releasing"
  /\ \E c \in CallsOf(j, "release") :
       calls[c].run = Job(j).newId /\ calls[c].token = JobCallId(j, 1)

\* C15: every duplication invocation that acquired the lock on the new run
\* eventually issues a release for it, whether the creation steps succeeded
\* or failed; once the invocation has finished, its release having
\* succeeded, the store holds no lock document for the new run carrying this
\* invocation's token.
C15_LockAlwaysReleased ==
  /\ \A j \in JobIds : AcquiredLock(j) ~> ReleaseIssued(j)
  /\ [](\A j \in DOMAIN jobs :
          (jobs[j].kind = "dup" /\ jobs[j].pc = "done") =>
            LockDoc(jobs[j].newId).lockId # JobCallId(j, 1))

\* one invocation whose creates were refused for an expired lock and one
\* whose creates succeeded have both finished
C15_Witness ==
  /\ \E j \in DOMAIN jobs :
       jobs[j].kind = "dup" /\ jobs[j].pc = "done" /\ jobs[j].res = "Expired"
  /\ \E j \in DOMAIN jobs :
       /\ jobs[j].kind = "dup" /\ jobs[j].pc = "done" /\ jobs[j].res = "ok"
       /\ RunExists(runs, jobs[j].newId)
       /\ ~LockDoc(jobs[j].newId).exists

(* ========================= claims on name validation =================== *)
\* the new name is that of a run of rs, letter case ignored
NameTaken(rs, name) == \E r \in rs : ToLowerCase(r.name) = ToLowerCase(name)

\* the stores are as they were, and invocation j has allocated no id, written
\* no run, holds no lock id and has no service call under way
NothingWritten(j) ==
  /\ runs' = runs /\ locks' = locks /\ execs' = execs /\ counter' = counter
  /\ jobs'[j].got = <<>> /\ jobs'[j].newId = NoRunId /\ jobs'[j].lockId = NoToken
  /\ \A c \in DOMAIN calls' : calls'[c].parent # j

\* C16: a duplication whose new name is empty, or equal ignoring case to the
\* name of a run existing at the time of the check (validateName's check, or
\* the check of testRunsService.duplicate), fails with a validation error and
\* has written no run document, no lock document, no execution record and
\* has not advanced the id counter.
C16_ValidationBeforeWrites ==
  [][\A j \in JobIds :
       /\ (/\ j \notin DOMAIN jobs /\ j \in DOMAIN jobs'
           /\ jobs'[j].kind = "dup"
           /\ ~isDuplicatingRef[jobs'[j].tab]
           /\ (jobs'[j].name = "" \/ NameTaken(runs, jobs'[j].name))) =>
            /\ jobs'[j].pc = "done" /\ jobs'[j].res = "ValidationFailed"
            /\ NothingWritten(j)
       /\ (/\ j \in DOMAIN jobs /\ jobs[j].pc = "nameExists" /\ jobs'[j] # jobs[j]
           /\ NameTaken(runs, jobs[j].name)) =>
            /\ jobs'[j].res = "NameExists"
            /\ NothingWritten(j)
    ]_vars

\* a duplication under the name of a run in other letter case and one
\* under the empty name have been refused
C16_Witness ==
  /\ Len(jobs) = 2
  /\ jobs[1].res = "ValidationFailed" /\ jobs[1].name = "run b"
  /\ jobs[2].res = "ValidationFailed" /\ jobs[2].name = ""
  /\ RunExists(runs, R2)

(* ======================= claims on the ownership check ================= *)
\* create call c is issued in this transition: _assertLockOwnership reads
\* the lock document
AssertReads(c) == c \notin DOMAIN calls /\ CallIn(calls', c).op = "create"

\* what _assertLockOwnership does on the document d it read, the tab's local
\* token being tok: it passes exactly for a live lock with the tab's token
\* and id; 'no active lock' for no document and 'locked by another tab' for
\* a mismatch, the lock document staying as it is; for a lock whose expiresAt
\* has passed it goes on to delete the document
AssertOutcomeAsSpecified(c) ==
  LET call == calls'[c]
      d == LockDoc(call.run)
      tok == LocalToken(call.tab, call.run)
      live == d.exists /\ now < d.expiresAt
      own == tok # NoToken /\ d.lockId = tok /\ d.tabId = call.tab
  IN /\ call.pc = "exists" <=> (live /\ own)
     /\ ~d.exists => (call.pc = "done" /\ call.res = "NoLock" /\ locks' = locks)
     /\ (d.exists /\ ~live) => (call.pc = "assertDelete" /\ call.snap = d)
     /\ (live /\ ~own) =>
          (call.pc = "done" /\ call.res = "LockedByOther" /\ locks' = locks)

\* the delete of the expired branch: 'lock expired' is raised and the
\* document deleted, if one is there, is a stale one
StaleLockDeleted(c) ==
  /\ calls'[c].res = "Expired"
  /\ ~LockIn(locks', calls[c].run).exists
  /\ LockDoc(calls[c].run).exists => IsExpired(LockDoc(calls[c].run), now)

\* C17: _assertLockOwnership(R) succeeds silently exactly when a lock
\* document for R exists, is unexpired, and its lockId equals the token this
\* tab recorded locally for R (and its tabId is this tab); it raises 'no
\* active lock' when the document is absent, raises 'lock expired' and
\* deletes the stale lock document when expiresAt has passed, and raises
\* 'locked by another tab' when the token does not match; in the absent and
\* mismatch cases the lock document is left unchanged.
C17_AssertOwnershipOutcomes ==
  [][\A c \in CallIds :
       /\ AssertReads(c) => AssertOutcomeAsSpecified(c)
       /\ (Call(c).pc = "assertDelete" /\ Steps(c)) => StaleLockDeleted(c)
    ]_vars

(* ============================ claims on release ======================== *)
\* the transaction of release call c commits in this transition
ReleaseCommits(c) ==
  /\ Call(c).op = "release" /\ Call(c).pc = "txCommit"
  /\ CallIn(calls', c).pc = "done"

\* C18: releaseTestRunLock(R, token) deletes R's lock document if and only
\* if the stored lockId equals the effective token or the stored tabId is
\* the calling tab; when the stored lock carries a different token and a
\* different tab (another party took over after expiry) the lock document is
\* left unchanged in every field.  No other step of a release changes a lock
\* document.
C18_ReleaseOnlyOwnLock ==
  [][\A c \in CallIds :
       LET d == LockDoc(Call(c).run)
           mine == d.lockId = Call(c).token \/ d.tabId = Call(c).tab
       IN /\ ReleaseCommits(c) =>
               /\ (d.exists /\ ~LockIn(locks', Call(c).run).exists) <=> (d.exists /\ mine)
               /\ (d.exists /\ ~mine) => locks' = locks
          /\ (CallIn(calls', c).op = "release" /\ Steps(c) /\ ~ReleaseCommits(c)) =>
               locks' = locks
    ]_vars

\* a tab whose lock expired and was taken over by the other tab has released
\* with its old lock id, and the other tab's lock is in the store
C18_Witness ==
  \E c \in DOMAIN calls :
    /\ calls[c].op = "release" /\ calls[c].pc = "done" /\ calls[c].token # NoToken
    /\ LockDoc(R1).exists
    /\ LockDoc(R1).lockId # calls[c].token
    /\ LockDoc(R1).tabId # calls[c].tab
    /\ \E a \in DOMAIN calls :
         /\ calls[a].op = "acquire" /\ calls[a].res = "ok"
         /\ calls[a].tab = calls[c].tab /\ calls[a].ret = calls[c].token

(* ======================= claims on the retry bound ===================== *)
\* the candidate ids of call j so far, one per counter increment of the call
Candidates(j) == {formatTestRunId(Job(j).got[i]) : i \in 1..Len(Job(j).got)}

\* job j's generateTestRunId raises the allocation error in this transition
Raises(j) == Job(j).res = "" /\ JobIn(jobs', j).res = "AllocationError"

\* C19: one generateTestRunId call performs at most 5 counter increments; it
\* returns the first candidate id for which no run document exists, and if
\* all 5 candidates already exist it raises the allocation error and returns
\* no id.
C19_AllocationRetryBound ==
  [][\A j \in JobIds :
       /\ Len(JobIn(jobs', j).got) <= 5
       /\ Returns(j) =>
            /\ JobIn(jobs', j).ret = formatTestRunId(Job(j).got[Len(Job(j).got)])
            /\ ~RunExists(runs, JobIn(jobs', j).ret)
            /\ \A id \in Candidates(j) \ {JobIn(jobs', j).ret} : RunExists(runs, id)
       /\ Raises(j) =>
            /\ Len(Job(j).got) = 5
            /\ \A id \in Candidates(j) : RunExists(runs, id)
            /\ JobIn(jobs', j).ret = NoRunId
       /\ (/\ Job(j).pc = "probe" /\ JobIn(jobs', j) # Job(j)
           /\ Len(Job(j).got) = 5
           /\ \A id \in Candidates(j) : RunExists(runs, id)) =>
            Raises(j)
    ]_vars

\* a call has raised the allocation error after five increments, the
\* counter being five above where the call found it
C19_Witness ==
  \E j \in JobIds :
    /\ Job(j).kind = "generate" /\ Job(j).res = "AllocationError"
    /\ Len(Job(j).got) = 5 /\ Job(j).ret = NoRunId
    /\ counter.exists /\ counter.current >= 6

(* ============================ claims on update ========================= *)
\* update call c is made in this transition
Updates(c) == c \notin DOMAIN calls /\ CallIn(calls', c).op = "update"

\* C20: testCaseExecutionsService.update(id, fields) succeeds and merges the
\* given fields into that record whatever the lock state of the record's run
\* (no lock, expired lock, or a live lock held by another tab), never reads
\* or changes the lock document, and changes no other record nor the
\* record's testRunId, testCaseId or executionDate.
C20_UpdateNeedsNoLock ==
  [][\A c \in CallIds :
       Updates(c) =>
         LET id == calls'[c].ret
             fields == calls'[c].args
         IN /\ locks' = locks /\ localLockTokens' = localLockTokens
            /\ \A e \in execs : e.id # id => e \in execs'
            /\ \A e \in execs' : e.id # id => e \in execs
            /\ \A e \in execs : e.id = id =>
                 /\ calls'[c].res = "ok"
                 /\ \E u \in execs' :
                      /\ u.id = id
                      /\ \A f \in DOMAIN fields : u[f] = fields[f]
                      /\ \A f \in DOMAIN e \ DOMAIN fields : u[f] = e[f]
                      /\ u.testRunId = e.testRunId /\ u.testCaseId = e.testCaseId
                      /\ u.executionDate = e.executionDate
                 /\ Cardinality({u \in execs' : u.id = id}) = 1
    ]_vars

\* a tab recorded a result on a record of TR001 after the other tab had
\* acquired the lock of TR001, which is still unexpired
C20_Witness ==
  \E a, c \in DOMAIN calls :
    /\ calls[a].op = "acquire" /\ calls[a].res = "ok" /\ a < c
    /\ calls[c].op = "update" /\ calls[c].res = "ok"
    /\ calls[c].tab # calls[a].tab
    /\ "status" \in DOMAIN calls[c].args
    /\ LockDoc(R1).lockId = calls[a].ret /\ now < LockDoc(R1).expiresAt
    /\ \E e \in execs :
         e.id = calls[c].ret /\ e.testRunId = R1 /\ e.testedBy = UserOf(calls[c].tab)

(* ============================ claims on listings ======================== *)
\* the stored records a listing call asks for
Asked(call, es) ==
  IF call.op = "getByTestRunId" THEN {e \in es : e.testRunId = call.run}
  ELSE {e \in es : e.testCaseId = call.case}

\* a listing call is issued and answered in this step
Lists(c) ==
  /\ c \notin DOMAIN calls
  /\ c \in DOMAIN calls'
  /\ calls'[c].op \in {"getByTestRunId", "getByTestCaseId"}

\* C21: getByTestRunId and getByTestCaseId return exactly the stored records
\* that match the key, each once and with a missing order field read as 0,
\* sorted by order ascending and, among records of equal order, by
\* executionDate descending; the call writes nothing.
C21_ListingOrder ==
  [][\A c \in DOMAIN calls' :
       Lists(c) =>
         LET list == calls'[c].list
         IN /\ calls'[c].res = "ok"
            /\ Len(list) = Cardinality(Asked(calls'[c], execs))
            /\ {list[i] : i \in 1..Len(list)} =
                 {[e EXCEPT !.order = IF e.order = NoOrder THEN 0 ELSE e.order] :
                    e \in Asked(calls'[c], execs)}
            /\ \A i, j \in 1..Len(list) :
                 i < j =>
                   \/ list[i].order < list[j].order
                   \/ /\ list[i].order = list[j].order
                      /\ list[i].executionDate >= list[j].executionDate
            /\ execs' = execs
    ]_vars

\* a listing by case of three records of both runs, in which a record stored
\* without order and with the later date comes before a record of order 0
\* with a lower document id, and a listing by run in which the later of two
\* records of one order comes first
C21_Witness ==
  /\ \E c \in DOMAIN calls :
       /\ calls[c].op = "getByTestCaseId"
       /\ Len(calls[c].list) = 3
       /\ {calls[c].list[i].testRunId : i \in 1..3} = {R1, R2}
       /\ calls[c].list[1].order = calls[c].list[2].order
       /\ calls[c].list[1].executionDate > calls[c].list[2].executionDate
       /\ calls[c].list[1].id > calls[c].list[2].id
       /\ \E e \in execs : e.id = calls[c].list[1].id /\ e.order = NoOrder
  /\ \E d \in DOMAIN calls :
       /\ calls[d].op = "getByTestRunId"
       /\ Len(calls[d].list) >= 2
       /\ calls[d].list[1].order = calls[d].list[2].order
       /\ calls[d].list[1].executionDate > calls[d].list[2].executionDate
       /\ calls[d].list[1].id > calls[d].list[2].id

(* ======================= claims on cleanupAllDuplicates ================= *)
\* the ids cleanupDuplicates(testRunId) deletes when called on collection es
PerRunDeletes(es, testRunId) == Elems(duplicatesToDelete(getByTestRunId(es, testRunId)))

\* call c is a cleanupAllDuplicates call that returns in this transition
CleanupAllReturns(c) ==
  /\ CallIn(calls', c).op = "cleanupAll"
  /\ Call(c).pc # "done"
  /\ CallIn(calls', c).pc = "done"

\* the result lists the runs that had a duplicate, each once, with the
\* number cleanupDuplicates would return for it
ResultsAsPerRun(results, before) ==
  /\ Elems(results) =
       {[testRunId |-> r, duplicatesRemoved |-> Cardinality(PerRunDeletes(before, r))] :
          r \in {e.testRunId : e \in {b \in before : PerRunDeletes(before, b.testRunId) # {}}}}
  /\ \A i, j \in 1..Len(results) : results[i].testRunId = results[j].testRunId => i = j

\* C22: when cleanupAllDuplicates returns, the collection holds exactly the
\* records that calling cleanupDuplicates(R) for every testRunId R of the
\* collection it read would have left, and its result lists exactly the runs
\* that had a duplicate, each with the number cleanupDuplicates(R) returns.
C22_CleanupAllEqualsPerRun ==
  [][\A c \in CallIds :
       CleanupAllReturns(c) =>
         LET before == Elems(CallIn(calls', c).list)
         IN /\ {e.id : e \in execs'} =
                 {e.id : e \in before} \ UNION {PerRunDeletes(before, b.testRunId) : b \in before}
            /\ ResultsAsPerRun(CallIn(calls', c).results, before)
    ]_vars

\* the part of C22 on the result alone
C22_ResultsOnly ==
  [][\A c \in CallIds :
       CleanupAllReturns(c) =>
         /\ ResultsAsPerRun(CallIn(calls', c).results, Elems(CallIn(calls', c).list))
         /\ Cardinality(execs') =
              Cardinality({<<e.testRunId, e.testCaseId>> : e \in execs'})
         /\ {<<e.testRunId, e.testCaseId>> : e \in execs'} =
              {<<e.testRunId, e.testCaseId>> : e \in Elems(CallIn(calls', c).list)}
    ]_vars

(* ====================== claims on the release bookkeeping =============== *)
\* call c is a releaseTestRunLock call issued in this transition
IssuesRelease(c) == Call(c).op = "none" /\ CallIn(calls', c).op = "release"

\* call c is a releaseTestRunLock call that returns in this transition
ReleaseReturns(c) ==
  /\ CallIn(calls', c).op = "release"
  /\ Call(c).pc # "done"
  /\ CallIn(calls', c).pc = "done"

\* C23: a releaseTestRunLock(R) with no token argument and no locally
\* recorded token for R returns at once, without a store access and with
\* nothing changed; every other releaseTestRunLock(R, token?) leaves, when it
\* returns, no locally recorded token for R in the calling tab.
C23_ReleaseClearsLocalToken ==
  [][\A c \in CallIds :
       LET call == CallIn(calls', c)
       IN /\ (IssuesRelease(c) /\ call.token = NoToken) =>
               /\ call.pc = "done" /\ call.tries = 0
               /\ <<locks, localLockTokens, execs>>' = <<locks, localLockTokens, execs>>
          /\ (ReleaseReturns(c) /\ call.token # NoToken) =>
               TokenIn(localLockTokens', call.tab, call.run) = NoToken
    ]_vars

\* the two parts of C23 that hold: the call without any token, and the call
\* whose effective token is the locally recorded one when it returns
C23_ReleaseOfRecordedToken ==
  [][\A c \in CallIds :
       LET call == CallIn(calls', c)
       IN /\ (IssuesRelease(c) /\ call.token = NoToken) =>
               /\ call.pc = "done" /\ call.tries = 0
               /\ <<locks, localLockTokens, execs>>' = <<locks, localLockTokens, execs>>
          /\ (ReleaseReturns(c) /\ call.token # NoToken
                /\ LocalToken(call.tab, call.run) \in {NoToken, call.token}) =>
               TokenIn(localLockTokens', call.tab, call.run) = NoToken
    ]_vars

\* tabA acquired twice and released with the first lock id: the lock
\* document is gone, the second lock id is still recorded
C23_StaleTokenKept ==
  \E a, b, c \in DOMAIN calls :
    /\ a < b /\ b < c
    /\ calls[a].op = "acquire" /\ calls[a].res = "ok" /\ calls[a].tab = "tabA"
    /\ calls[b].op = "acquire" /\ calls[b].res = "ok" /\ calls[b].tab = "tabA"
    /\ calls[c].op = "release" /\ calls[c].pc = "done" /\ calls[c].tab = "tabA"
    /\ calls[c].token = calls[a].ret
    /\ ~LockDoc(R1).exists
    /\ LocalToken("tabA", R1) = calls[b].ret

(* ====================== claims on the re-entrancy guard ================= *)
\* workflow j is a confirmDuplicate invocation started in this transition
Invoked(j) == j \notin DOMAIN jobs /\ j \in DOMAIN jobs' /\ jobs'[j].kind = "dup"

\* an earlier invocation of the tab has not finished: it is in flight, or
\* the timer that resets the guard has not fired yet
Unfinished(tab) ==
  {i \in DOMAIN jobs : jobs[i].kind = "dup" /\ jobs[i].tab = tab /\ jobs[i].pc # "done"}

\* C24: a confirmDuplicate invocation started in a tab while an earlier
\* invocation of that tab is in flight (awaiting the name validation
\* included) or in its cooldown returns without calling
\* testRunsService.duplicate, so that at most one invocation of a tab is
\* past the guard at any time.
C24_ReentrancyGuard ==
  [][\A j \in JobIds :
       (Invoked(j) /\ Unfinished(jobs'[j].tab) # {}) => jobs'[j].pc = "done"
    ]_vars

\* the guard once it is set: an invocation started after an earlier one of
\* the tab has set isDuplicatingRef.current (and before its timer fired) is
\* blocked
C24_GuardOnceSet ==
  [][\A j \in JobIds :
       (Invoked(j) /\ \E i \in Unfinished(jobs'[j].tab) : jobs[i].pc # "getById")
         => jobs'[j].res = "Blocked"
    ]_vars

\* two invocations of one tab are both past the guard: each has called
\* testRunsService.duplicate and holds a run id of its own
C24_BothPastGuard ==
  \E i, j \in DOMAIN jobs :
    /\ i # j /\ jobs[i].tab = jobs[j].tab
    /\ jobs[i].kind = "dup" /\ jobs[j].kind = "dup"
    /\ jobs[i].newId # NoRunId /\ jobs[j].newId # NoRunId
    /\ jobs[i].newId # jobs[j].newId
    /\ jobs[i].pc # "done" /\ jobs[j].pc # "done"

(* ===================== claims on createWithGeneratedId ================== *)
\* workflow j is at the getDoc of create in this transition
CreateChecks(j) == j \in DOMAIN jobs /\ jobs[j].pc = "createCheck" /\ jobs'[j].pc # "createCheck"

\* workflow j is at the setDoc of create in this transition
CreateSets(j) == j \in DOMAIN jobs /\ jobs[j].pc = "createSet" /\ jobs'[j].pc # "createSet"

\* C25: createWithGeneratedId never writes over a run document that another
\* client created under the candidate id; create on an existing id raises
\* 'already exists' and writes nothing, and createWithGeneratedId then takes
\* a newly generated id, at most MAX_ID_ATTEMPTS times; the id it returns is
\* that of the run document this call wrote.
C25_CreateNeverOverwrites ==
  [][\A j \in JobIds :
       /\ (CreateChecks(j) /\ RunExists(runs, jobs[j].ret)) =>
            /\ runs' = runs
            /\ jobs'[j].outer = jobs[j].outer + 1
            /\ jobs'[j].outer <= MAX_ID_ATTEMPTS
            /\ jobs'[j].newId = NoRunId
            /\ IF jobs'[j].outer < MAX_ID_ATTEMPTS THEN jobs'[j].pc = "seed"
               ELSE jobs'[j].res = "CreateExhausted"
       /\ CreateSets(j) =>
            /\ ~RunExists(runs, jobs[j].ret)
            /\ {r \in runs' : r.id # jobs[j].ret} = runs
            /\ jobs'[j].newId = jobs[j].ret
            /\ \E r \in runs' : r.id = jobs'[j].newId /\ r.name = jobs[j].name
    ]_vars

\* the part of C25 on a collision that create's getDoc sees, and on the id
\* returned
C25_SeenCollisionRetries ==
  [][\A j \in JobIds :
       /\ (CreateChecks(j) /\ RunExists(runs, jobs[j].ret)) =>
            /\ runs' = runs
            /\ jobs'[j].outer = jobs[j].outer + 1
            /\ jobs'[j].outer <= MAX_ID_ATTEMPTS
            /\ jobs'[j].newId = NoRunId
            /\ IF jobs'[j].outer < MAX_ID_ATTEMPTS THEN jobs'[j].pc = "seed"
               ELSE jobs'[j].res = "CreateExhausted"
       /\ CreateSets(j) =>
            /\ jobs'[j].newId = jobs[j].ret
            /\ \E r \in runs' : r.id = jobs'[j].newId /\ r.name = jobs[j].name
    ]_vars

\* a call that met a run of the other client under its first candidate and
\* returned its second one; a call that gave up after MAX_ID_ATTEMPTS
\* candidates
C25_CollisionsSeen ==
  /\ \E j \in DOMAIN jobs :
       /\ jobs[j].newId # NoRunId /\ Len(jobs[j].got) = 2
       /\ \E r \in runs : r.id = formatTestRunId(jobs[j].got[1]) /\ r.name = "Other"
       /\ \E r \in runs : r.id = jobs[j].newId /\ r.name = "Copy"

(* ====================== claims on a refused acquisition ================= *)
\* call c is an acquireTestRunLock call that raises locked-by-another-tab in
\* this transition
AcquireRefused(c) ==
  /\ CallIn(calls', c).op = "acquire"
  /\ Call(c).pc # "done"
  /\ CallIn(calls', c).pc = "done"
  /\ CallIn(calls', c).res = "LockedByOther"

\* C26: an acquireTestRunLock call that raises locked-by-another-tab leaves
\* the lock document as it is and leaves the token the calling tab has
\* recorded for the run as it was: the lock id of the refused call (fresh for
\* every call, so never recorded before it) is not recorded.
C26_RefusedAcquireChangesNothing ==
  [][\A c \in CallIds :
       AcquireRefused(c) =>
         /\ locks' = locks
         /\ localLockTokens' = localLockTokens
         /\ LocalToken(CallIn(calls', c).tab, CallIn(calls', c).run) # CallIn(calls', c).token
    ]_vars

\* the part of C26 that holds: the lock document is unchanged, and a call
\* refused in the first run of its transaction body leaves the recorded
\* token unchanged
C26_RefusedAtFirstAttempt ==
  [][\A c \in CallIds :
       AcquireRefused(c) =>
         /\ locks' = locks
         /\ LockDoc(CallIn(calls', c).run).exists
         /\ LockDoc(CallIn(calls', c).run).tabId # CallIn(calls', c).tab
         /\ localLockTokens' = localLockTokens
         /\ CallIn(calls', c).tries = 1 =>
              LocalToken(CallIn(calls', c).tab, CallIn(calls', c).run) # CallIn(calls', c).token
    ]_vars

\* a call of tabA was refused at its first attempt while tabA had recorded
\* the lock id of an earlier, expired lock of its own
C26_RefusedWithTokenKept ==
  \E c, d \in DOMAIN calls :
    /\ calls[c].op = "acquire" /\ calls[c].res = "LockedByOther" /\ calls[c].tries = 1
    /\ calls[d].op = "acquire" /\ calls[d].res = "ok" /\ calls[d].tab = calls[c].tab
    /\ d < c
    /\ LocalToken(calls[c].tab, R1) = calls[d].ret
    /\ LockDoc(R1).tabId # calls[c].tab

(* ================= claims on the locally recorded token ================= *)
\* C27: the token a tab has recorded for a run is the lock id of an
\* acquireTestRunLock call of that tab, and once that call has returned it is
\* one whose transaction committed the lock document with this lock id: a
\* call that was refused after a rejected commit leaves no token recorded.
C27_LocalTokenWasCommitted ==
  \A tab \in Tabs :
    LET t == LocalToken(tab, R1)
    IN t # NoToken =>
         /\ Call(t).op = "acquire" /\ Call(t).tab = tab /\ Call(t).token = t
         /\ Call(t).pc = "done" => Call(t).res = "ok"

\* every acquire that returns a lock id has committed the lock document with
\* that id
C27_ReturnedTokenCommitted ==
  [][\A c \in CallIds :
       (CallIn(calls', c).op = "acquire" /\ Call(c).pc # "done"
          /\ CallIn(calls', c).pc = "done" /\ CallIn(calls', c).res = "ok") =>
         /\ LockIn(locks', CallIn(calls', c).run).lockId = CallIn(calls', c).ret
         /\ LockIn(locks', CallIn(calls', c).run).tabId = CallIn(calls', c).tab
         /\ CallIn(calls', c).ret = CallIn(calls', c).token
    ]_vars

(* ===================== claims on the stale-lock cleanup ================= *)
\* the deleteDoc of the expired branch of _assertLockOwnership, in create
\* call c, is made in this transition
DeletesStaleLock(c) == Call(c).op = "create" /\ Call(c).pc = "assertDelete" /\ Steps(c)

\* C28: the deleteDoc that _assertLockOwnership issues after it read an
\* expired lock document does not delete a lock document that is unexpired
\* when the delete is made, such as the lock another tab acquired between
\* the read and the delete.
C28_CleanupSparesLiveLock ==
  [][\A c \in CallIds :
       DeletesStaleLock(c) =>
         ~(LockDoc(Call(c).run).exists /\ ~IsExpired(LockDoc(Call(c).run), now))
    ]_vars

\* the delete removes the document the call read whenever that document is
\* still the stored one
C28_DeletesWhatItRead ==
  [][\A c \in CallIds :
       (DeletesStaleLock(c) /\ LockDoc(Call(c).run) = Call(c).snap) =>
         /\ IsExpired(Call(c).snap, now)
         /\ ~LockIn(locks', Call(c).run).exists
    ]_vars

\* a live lock of tabB was deleted by the cleanup of a create of tabA: tabB's
\* acquire returned, tabA's create raised 'lock expired', no lock document
\* is left and tabB still records its lock id
C28_LiveLockGone ==
  \E a, c \in DOMAIN calls :
    /\ calls[a].op = "acquire" /\ calls[a].tab = "tabB" /\ calls[a].res = "ok"
    /\ calls[c].op = "create" /\ calls[c].tab = "tabA" /\ calls[c].res = "Expired"
    /\ ~LockDoc(R1).exists
    /\ LocalToken("tabB", R1) = calls[a].ret
    /\ \A r \in DOMAIN calls : calls[r].op # "release"

(* ========================= claims on a held lock ======================== *)
\* a release carrying this lock id has been issued, this transition included
ReleaseIssuedFor(lockId) ==
  \E r \in DOMAIN calls' : calls'[r].op = "release" /\ calls'[r].token = lockId

\* C29: while the lock document of R is unexpired and no release carrying
\* its lockId has been issued, no step of any call replaces or deletes it:
\* not an acquire or release of another tab, and not a second acquire or a
\* release with an older lock id in the tab that holds it.
C29_HeldLockSurvives ==
  [][LET held == LockDoc(R1)
     IN (held.exists /\ ~IsExpired(held, now) /\ ~ReleaseIssuedFor(held.lockId))
          => LockIn(locks', R1) = held
    ]_vars

\* the part of C29 on other tabs: no step of an acquire or release of a tab
\* other than the holder changes an unexpired lock document
C29_OtherTabsKeepOut ==
  [][\A c \in CallIds :
       LET held == LockDoc(R1)
       IN (held.exists /\ ~IsExpired(held, now) /\ Steps(c)
             /\ CallIn(calls', c).op \in {"acquire", "release"}
             /\ CallIn(calls', c).tab # held.tabId)
            => LockIn(locks', R1) = held
    ]_vars

\* tabA released with the lock id of its first acquire and thereby deleted
\* the lock of its second acquire, for which no release was issued, before
\* any time had passed
C29_OlderTokenReleased ==
  \E a, b, r \in DOMAIN calls :
    /\ a < b
    /\ calls[a].op = "acquire" /\ calls[a].res = "ok" /\ calls[a].tab = "tabA"
    /\ calls[b].op = "acquire" /\ calls[b].res = "ok" /\ calls[b].tab = "tabA"
    /\ calls[r].op = "release" /\ calls[r].pc = "done" /\ calls[r].token = calls[a].ret
    /\ ~LockDoc(R1).exists
    /\ now = 0

(* ==================== claims on creates after the release =============== *)
\* invocation j has released its lock in the finally block: its
\* releaseTestRunLock call has returned
HasReleased(j) ==
  /\ j \in DOMAIN jobs
  /\ jobs[j].kind = "dup"
  /\ \/ \E r \in CallsOf(j, "release") : calls[r].pc = "done"
     \/ jobs[j].pc = "done" /\ jobs[j].newId # NoRunId /\ jobs[j].issued > 0

\* C30: once a duplication invocation has released its lock in the finally
\* block, no create call it issued inserts an execution record, also when
\* Promise.all was rejected by one create while others were under way.
C30_NoInsertAfterRelease ==
  [][\A c \in DOMAIN calls :
       (calls[c].op = "create" /\ HasReleased(calls[c].parent) /\ Steps(c))
         => execs' = execs
    ]_vars

\* an invocation whose creates were refused for an expired lock has finished
\* and released, and the new run holds a record that a create of this
\* invocation inserted after the invocation was over
C30_LateRecord ==
  \E j \in DOMAIN jobs :
    /\ jobs[j].kind = "dup" /\ jobs[j].pc = "done" /\ jobs[j].res = "Expired"
    /\ \E c \in CallsOf(j, "create") :
         /\ calls[c].pc = "done" /\ calls[c].res = "ok"
         /\ \E e \in execs : e.id = calls[c].ret /\ e.testRunId = jobs[j].newId

====
